---------------------------- MODULE Spec2Model ----------------------------
(***************************************************************************)
(* A model of the citeproc-rs processor: the cluster-order API of          *)
(* crates/citeproc/src/processor.rs (init_clusters, insert_cites,          *)
(* remove_cluster, set_cluster_order, preview_citation_cluster, compute,   *)
(* batched_updates), the reference ordering of crates/proc/src/sort.rs     *)
(* (sorted_refs, bib_ordering, compare_demoting_none) and its sort-string  *)
(* comparator (natural_sort::natural_cmp).                                 *)
(*                                                                         *)
(* Option<T> is modelled as a sequence: None is <<>> and Some(x) is <<x>>. *)
(* A salsa input that was never set reads as None / the empty list.        *)
(***************************************************************************)
EXTENDS Integers, Sequences, FiniteSets, TLC

VARIABLES
    cluster_ids,          \* input cluster_ids: Vec<ClusterId>
    cluster_note_number,  \* input cluster_note_number(id): Option<ClusterNumber>
    cluster_cites,        \* input cluster_cites(id): Vec<CiteId>, here the cited reference ids
    last_clusters,        \* Processor.last_clusters: id -> Option<last emitted string>
    last_bibliography,    \* Processor.last_bibliography: SavedBib
    call,                 \* the last API call: its name, arguments and return value
    args,                 \* the arguments of a pure function under check
    ret                   \* its result, None before it ran

vars == <<cluster_ids, cluster_note_number, cluster_cites, last_clusters,
          last_bibliography, call, args, ret>>

db == <<cluster_ids, cluster_note_number, cluster_cites>>

-----------------------------------------------------------------------------
(* Bounds of the model *)

\* longest list of positions or clusters handed to one call
MaxPositions == 2
\* longest list of cites handed to insert_cites, init_clusters or a preview
MaxCites == 1

-----------------------------------------------------------------------------
(* Option and small helpers *)

None == <<>>
Some(x) == <<x>>
is_some(o) == o # <<>>
unwrap(o) == o[1]

SeqsUpTo(S, n) == UNION {[1..k -> S] : k \in 0..n}

contains(s, x) == \E i \in 1..Len(s) : s[i] = x

RECURSIVE filter_ne(_, _)
\* .iter().filter(|&i| *i != raw).cloned().collect()
filter_ne(s, x) ==
    IF s = <<>> THEN <<>>
    ELSE IF Head(s) = x THEN filter_ne(Tail(s), x)
         ELSE <<Head(s)>> \o filter_ne(Tail(s), x)

-----------------------------------------------------------------------------
(* Identifiers *)

PREVIEW_CLUSTER_ID == "PREVIEW-7b2b4e3fe4429cb"
ClusterIds == {"c1", "c2", "c3", PREVIEW_CLUSTER_ID}
RefIds == {"one", "two"}

\* ClusterNumber::InText(n) and ClusterNumber::Note(IntraNote::Multi(n, i))
InText(n) == [kind |-> "InText", num |-> n]
NoteMulti(n, i) == [kind |-> "Note", num |-> n, index |-> i]

\* ClusterPosition { id, note: Option<u32> }
ClusterPosition(id, note) == [id |-> id, note |-> note]

\* Cluster { id, cites }
Cluster(id, cites) == [id |-> id, cites |-> cites]

Ok == [kind |-> "Ok"]
NonExistentCluster(id) == [kind |-> "NonExistentCluster", id |-> id]
NonMonotonicNoteNumber(n) == [kind |-> "NonMonotonicNoteNumber", n |-> n]
DidNotSupplyZeroPosition == [kind |-> "DidNotSupplyZeroPosition"]

-----------------------------------------------------------------------------
(* The input store as one value: D.ids, D.notes, D.cites *)

Db(ids, notes, cites) == [ids |-> ids, notes |-> notes, cites |-> cites]

\* self.set_cluster_note_number(id, num)
set_cluster_note_number(D, id, num) == [D EXCEPT !.notes[id] = num]

\* self.set_cluster_cites(id, cites)
set_cluster_cites(D, id, cites) == [D EXCEPT !.cites[id] = cites]

\* self.set_cluster_ids(ids)
set_cluster_ids(D, ids) == [D EXCEPT !.ids = ids]

-----------------------------------------------------------------------------
(* Processor::set_cluster_order_inner *)

\* The loop state: the store, the new id list, the counters, the log kept by
\* the mods callback and the error the loop returned with, if any.
OrderLoop(D) ==
    [D |-> D, cluster_ids |-> <<>>, intext_number |-> 1, this_note |-> None,
     mods |-> <<>>, err |-> None]

\* mods(piece.id, self.cluster_note_number(piece.id)), made only for an id of
\* old_cluster_ids and only on the branch where this_note is already set
log_mod(st, old_cluster_ids, id) ==
    IF contains(old_cluster_ids, id)
    THEN Append(st.mods, <<id, st.D.notes[id]>>)
    ELSE st.mods

\* order_later_note with `nn <= note.0` for `nn < note.0`: a second cluster
\* in the same note is refused
order_later_note_strict(st, old_cluster_ids, id, nn) ==
    LET note == unwrap(st.this_note) IN
    IF nn <= note[1]
    THEN [st EXCEPT !.err = Some(NonMonotonicNoteNumber(nn))]
    ELSE [st EXCEPT !.mods = log_mod(st, old_cluster_ids, id),
                    !.D = set_cluster_note_number(st.D, id, Some(NoteMulti(nn, 0))),
                    !.this_note = Some(<<nn, 1>>),
                    !.cluster_ids = Append(st.cluster_ids, id)]

\* a position with a note, this_note = Some(note)
order_later_note(st, old_cluster_ids, id, nn) ==
    LET note == unwrap(st.this_note) IN
    IF nn < note[1]
    THEN [st EXCEPT !.err = Some(NonMonotonicNoteNumber(nn))]
    ELSE LET logged == log_mod(st, old_cluster_ids, id) IN
         IF nn = note[1]
         THEN [st EXCEPT !.mods = logged,
                         !.D = set_cluster_note_number(st.D, id, Some(NoteMulti(note[1], note[2]))),
                         !.this_note = Some(<<note[1], note[2] + 1>>),
                         !.cluster_ids = Append(st.cluster_ids, id)]
         ELSE [st EXCEPT !.mods = logged,
                         !.D = set_cluster_note_number(st.D, id, Some(NoteMulti(nn, 0))),
                         !.this_note = Some(<<nn, 1>>),
                         !.cluster_ids = Append(st.cluster_ids, id)]

\* the first note in the document
order_first_note(st, id, nn) ==
    [st EXCEPT !.this_note = Some(<<nn, 1>>),
               !.D = set_cluster_note_number(st.D, id, Some(NoteMulti(nn, 0))),
               !.cluster_ids = Append(st.cluster_ids, id)]

\* order_intext without `intext_number += 1`
order_intext_no_increment(st, id) ==
    [st EXCEPT !.D = set_cluster_note_number(st.D, id, Some(InText(st.intext_number))),
               !.cluster_ids = Append(st.cluster_ids, id)]

\* a position without a note: an in-text cluster
order_intext(st, id) ==
    [st EXCEPT !.D = set_cluster_note_number(st.D, id, Some(InText(st.intext_number))),
               !.intext_number = st.intext_number + 1,
               !.cluster_ids = Append(st.cluster_ids, id)]

\* one turn of `for piece in positions`
order_piece(st, old_cluster_ids, piece) ==
    IF is_some(piece.note)
    THEN IF is_some(st.this_note)
         THEN order_later_note(st, old_cluster_ids, piece.id, unwrap(piece.note))
         ELSE order_first_note(st, piece.id, unwrap(piece.note))
    ELSE order_intext(st, piece.id)

RECURSIVE order_loop(_, _, _)
\* the loop; `return Err(..)` leaves it at once
order_loop(st, old_cluster_ids, positions) ==
    IF positions = <<>> \/ is_some(st.err) THEN st
    ELSE order_loop(order_piece(st, old_cluster_ids, Head(positions)),
                    old_cluster_ids, Tail(positions))

\* On Ok the id list is replaced ("removes any clusters that did not appear");
\* on Err the function has returned before set_cluster_ids.
order_finish(st) ==
    IF is_some(st.err) THEN st.D ELSE set_cluster_ids(st.D, st.cluster_ids)

\* The whole function: the store it leaves, its result and the mods log.
set_cluster_order_inner(D, positions) ==
    LET st == order_loop(OrderLoop(D), D.ids, positions) IN
    [D |-> order_finish(st),
     result |-> IF is_some(st.err) THEN unwrap(st.err) ELSE Ok,
     mods |-> st.mods]

-----------------------------------------------------------------------------
(* insert_cites, remove_cluster, init_clusters *)

\* Processor::insert_cites
insert_cites(D, id, cites) ==
    LET D1 == IF ~contains(D.ids, id)
              THEN set_cluster_note_number(set_cluster_ids(D, Append(D.ids, id)), id, None)
              ELSE D
    IN set_cluster_cites(D1, id, cites)

\* Processor::remove_cluster
remove_cluster(D, id) ==
    LET D1 == set_cluster_note_number(set_cluster_cites(D, id, <<>>), id, None)
    IN set_cluster_ids(D1, filter_ne(D1.ids, id))

RECURSIVE init_loop(_, _)
\* the loop of init_clusters: per cluster set_cluster_cites, set_cluster_note_number(None)
init_loop(D, clusters) ==
    IF clusters = <<>> THEN D
    ELSE LET c == Head(clusters) IN
         init_loop(set_cluster_note_number(set_cluster_cites(D, c.id, c.cites), c.id, None),
                   Tail(clusters))

\* Processor::init_clusters
init_clusters(D, clusters) ==
    set_cluster_ids(init_loop(D, clusters), [i \in 1..Len(clusters) |-> clusters[i].id])

\* Processor::get_cluster_note_number
get_cluster_note_number(D, id) == D.notes[id]

-----------------------------------------------------------------------------
(* save_cluster_state, restore_cluster_state, preview_citation_cluster *)

\* Processor::save_cluster_state: ClusterState { cluster_ids, relevant_one, old_positions }
save_cluster_state(D, relevant_cluster) ==
    [cluster_ids |-> D.ids,
     relevant_one |->
        IF is_some(relevant_cluster) /\ contains(D.ids, unwrap(relevant_cluster))
        THEN LET rc == unwrap(relevant_cluster) IN
             Some([my_id |-> rc,
                   cluster_note_number |-> D.notes[rc],
                   cluster_cites |-> D.cites[rc]])
        ELSE None,
     old_positions |-> None]

RECURSIVE restore_positions(_, _)
\* for (id, num) in old_pos { self.set_cluster_note_number(id, num) }
restore_positions(D, old_pos) ==
    IF old_pos = <<>> THEN D
    ELSE restore_positions(set_cluster_note_number(D, Head(old_pos)[1], Head(old_pos)[2]),
                           Tail(old_pos))

\* Processor::restore_cluster_state
restore_cluster_state(D, state) ==
    LET D1 == IF is_some(state.relevant_one)
              THEN LET one == unwrap(state.relevant_one) IN
                   set_cluster_cites(
                       set_cluster_note_number(D, one.my_id, one.cluster_note_number),
                       one.my_id, one.cluster_cites)
              ELSE D
        D2 == IF is_some(state.old_positions)
              THEN restore_positions(D1, unwrap(state.old_positions))
              ELSE D1
    IN set_cluster_ids(D2, state.cluster_ids)

\* positions.iter().filter(|pos| pos.id == self.preview_cluster_id).count()
count_preview(positions) ==
    Cardinality({i \in 1..Len(positions) : positions[i].id = PREVIEW_CLUSTER_ID})

\* Processor::preview_marked_init: Err(e) with the store as the failed call
\* left it, or Ok with the preview id and the saved state.
preview_marked_init(D, positions) ==
    IF count_preview(positions) # 1
    THEN [D |-> D, result |-> DidNotSupplyZeroPosition]
    ELSE LET state == save_cluster_state(D, None)
             r == set_cluster_order_inner(D, positions)
         IN IF r.result # Ok
            THEN [D |-> r.D, result |-> r.result]
            ELSE [D |-> r.D, result |-> Ok, id |-> PREVIEW_CLUSTER_ID,
                  state |-> [state EXCEPT !.old_positions =
                                Some(Append(r.mods, <<PREVIEW_CLUSTER_ID, None>>))]]

\* the `match position` at the head of preview_citation_cluster
preview_init(D, position) ==
    IF position.kind = "ReplaceCluster"
    THEN IF ~contains(D.ids, position.id)
         THEN [D |-> D, result |-> NonExistentCluster(position.id)]
         ELSE [D |-> D, result |-> Ok, id |-> position.id,
               state |-> save_cluster_state(D, Some(position.id))]
    ELSE preview_marked_init(D, position.positions)

\* Processor::preview_citation_cluster: the store it leaves and its result
\* (the rendered markup of an Ok result is not part of the store).
preview_citation_cluster(D, cites, position) ==
    LET init == preview_init(D, position) IN
    IF init.result # Ok
    THEN [D |-> init.D, result |-> init.result]
    ELSE [D |-> restore_cluster_state(insert_cites(init.D, init.id, cites), init.state),
          result |-> Ok]

ReplaceCluster(id) == [kind |-> "ReplaceCluster", id |-> id]
MarkWithZero(positions) == [kind |-> "MarkWithZero", positions |-> positions]

-----------------------------------------------------------------------------
(* std::cmp::Ordering *)

Less == "Less"
Equal == "Equal"
Greater == "Greater"

\* Ordering::reverse
reverse(o) == IF o = Less THEN Greater ELSE IF o = Greater THEN Less ELSE o

\* Ordering::then_with
then_with(o, p) == IF o # Equal THEN o ELSE p

\* Ord for integers
int_cmp(a, b) == IF a < b THEN Less ELSE IF a > b THEN Greater ELSE Equal

\* Ord for Option<T> where T is an integer: None < Some(_)
opt_int_cmp(a, b) ==
    IF a = None /\ b = None THEN Equal
    ELSE IF a = None THEN Less
    ELSE IF b = None THEN Greater
    ELSE int_cmp(unwrap(a), unwrap(b))

-----------------------------------------------------------------------------
(* Strings: a string is a sequence of characters.  The four private-use   *)
(* markers of natural_sort are the characters named DATE_START, DATE_END, *)
(* NUM_START and NUM_END.                                                 *)

DATE_START == "DATE_START"
DATE_END == "DATE_END"
NUM_START == "NUM_START"
NUM_END == "NUM_END"

Digits == {"0", "1", "2", "3", "4", "5", "6", "7", "8", "9"}
Letters == {"a", "b", "A", "B"}
Chars == Digits \cup Letters \cup {"+", "-", "/", "_", DATE_START, DATE_END, NUM_START, NUM_END}

\* the scalar value of a character, which orders str's Ord
code_point(c) ==
    CASE c = "+" -> 43 [] c = "-" -> 45 [] c = "/" -> 47
      [] c = "0" -> 48 [] c = "1" -> 49 [] c = "2" -> 50 [] c = "3" -> 51
      [] c = "4" -> 52 [] c = "5" -> 53 [] c = "6" -> 54 [] c = "7" -> 55
      [] c = "8" -> 56 [] c = "9" -> 57
      [] c = "A" -> 65 [] c = "B" -> 66 [] c = "_" -> 95
      [] c = "a" -> 97 [] c = "b" -> 98
      [] c = DATE_START -> 57344 [] c = DATE_END -> 57345
      [] c = NUM_START -> 57346 [] c = NUM_END -> 57347

\* the value of an ASCII digit
digit_value(c) == code_point(c) - code_point("0")

\* the case folding UniCase compares under
to_folded(c) == CASE c = "A" -> "a" [] c = "B" -> "b" [] OTHER -> c

RECURSIVE str_cmp(_, _)
\* Ord for str: lexicographic by character, a proper prefix is Less
str_cmp(a, b) ==
    IF a = <<>> /\ b = <<>> THEN Equal
    ELSE IF a = <<>> THEN Less
    ELSE IF b = <<>> THEN Greater
    ELSE then_with(int_cmp(code_point(Head(a)), code_point(Head(b))),
                   str_cmp(Tail(a), Tail(b)))

\* Ord for UniCase<&str>: str's order on the case-folded characters
unicase_cmp(a, b) ==
    str_cmp([i \in 1..Len(a) |-> to_folded(a[i])], [i \in 1..Len(b) |-> to_folded(b[i])])

RECURSIVE from_str(_, _)
\* FromStr for u32 on a run of at most 8 digits, as take_8_digits hands it
\* to to_u32 (acc carries the value so far)
from_str(s, acc) ==
    IF s = <<>> THEN acc ELSE from_str(Tail(s), 10 * acc + digit_value(Head(s)))

to_u32(s) == from_str(s, 0)

\* i32::MAX
I32_MAX == 2147483647

RECURSIVE from_str_i32(_, _)
\* FromStr for i32 on a run of digits: Some(value), or None for
\* Err(PosOverflow) when the value passes i32::MAX
from_str_i32(s, acc) ==
    IF s = <<>> THEN Some(acc)
    ELSE IF acc > (I32_MAX - digit_value(Head(s))) \div 10 THEN None
    ELSE from_str_i32(Tail(s), 10 * acc + digit_value(Head(s)))

\* to_i32: FromStr::from_str(s).unwrap(); Some(value), or None where the
\* unwrap panics
to_i32(s) == from_str_i32(s, 0)

\* length of the longest prefix of s made of characters of S (nom's take_while)
prefix_len(s, S) ==
    LET stops == {i \in 1..Len(s) : s[i] \notin S} IN
    IF stops = {} THEN Len(s)
    ELSE (CHOOSE i \in stops : \A j \in stops : i <= j) - 1

drop(s, n) == SubSeq(s, n + 1, Len(s))
take(s, n) == SubSeq(s, 1, n)

-----------------------------------------------------------------------------
(* natural_sort: the tokens of a sort string and their comparison *)

\* a nom IResult: Err, or Ok((rem, val)); Panic is the parser that did not
\* return because to_i32 panicked in it
Fail == [ok |-> FALSE, panic |-> FALSE]
Panic == [ok |-> FALSE, panic |-> TRUE]
Parsed(rem, val) == [ok |-> TRUE, panic |-> FALSE, rem |-> rem, val |-> val]

\* what a comparison gives when a parser panicked under it
Panics == "Panics"

\* nom's char(c)
char(inp, c) ==
    IF inp # <<>> /\ Head(inp) = c THEN Parsed(Tail(inp), c) ELSE Fail

\* the Ok of natural_sort::year: y is to_i32 of the digits, applied before
\* the sign
year_value(rem3, pref, y) ==
    IF y = None THEN Panic
    ELSE Parsed(rem3, IF pref = Some("-") THEN 0 - unwrap(y) ELSE unwrap(y))

\* natural_sort::year: opt(+|-), take_while1(digit), '_'
year(inp) ==
    LET pref == IF inp # <<>> /\ Head(inp) \in {"+", "-"} THEN Some(Head(inp)) ELSE None
        rem1 == IF is_some(pref) THEN Tail(inp) ELSE inp
        n == prefix_len(rem1, Digits)
        rem2 == drop(rem1, n)
    IN IF n = 0 THEN Fail
       ELSE IF ~char(rem2, "_").ok THEN Fail
       ELSE year_value(Tail(rem2), pref, to_i32(take(rem1, n)))

\* CmpDate { year: Option<i32>, rest: &str }
CmpDate(y, rest) == [year |-> y, rest |-> rest]

\* natural_sort::date: opt(year), take_while(still_date)
date(inp) ==
    LET y == year(inp)
        rem1 == IF y.ok THEN y.rem ELSE inp
        n == prefix_len(rem1, Chars \ {DATE_END, "/"})
    IN IF y.panic THEN Panic
       ELSE Parsed(drop(rem1, n), CmpDate(IF y.ok THEN Some(y.val) ELSE None, take(rem1, n)))

Single(a) == [kind |-> "Single", a |-> a]
Range(a, b) == [kind |-> "Range", a |-> a, b |-> b]

TokenStr(x) == [kind |-> "Str", str |-> x]
TokenNum(n) == [kind |-> "Num", num |-> n]
TokenDate(r) == [kind |-> "Date", range |-> r]

\* natural_sort::range: DATE_START date opt('/' date) DATE_END
\* the closing char(DATE_END) and the value built from the one or two dates
range_end(first, d2, e) ==
    IF ~e.ok THEN Fail
    ELSE Parsed(e.rem, TokenDate(IF d2.ok THEN Range(first.val, d2.val)
                                 ELSE Single(first.val)))

\* opt(preceded(char('/'), date))
range_second(first, d2) ==
    IF d2.panic THEN Panic
    ELSE range_end(first, d2, char(IF d2.ok THEN d2.rem ELSE first.rem, DATE_END))

range_slash(first, slash) ==
    range_second(first, IF slash.ok THEN date(slash.rem) ELSE Fail)

range_first(first) ==
    IF first.panic THEN Panic ELSE range_slash(first, char(first.rem, "/"))

range_start(s0) == IF ~s0.ok THEN Fail ELSE range_first(date(s0.rem))

range(inp) == range_start(char(inp, DATE_START))

\* natural_sort::num: NUM_START take_while_m_n(1, 8, digit) NUM_END
num(inp) ==
    LET s0 == char(inp, NUM_START) IN
    IF ~s0.ok THEN Fail
    ELSE LET run == prefix_len(s0.rem, Digits)
             n == IF run > 8 THEN 8 ELSE run
             e == char(drop(s0.rem, n), NUM_END)
         IN IF n = 0 \/ ~e.ok THEN Fail
            ELSE Parsed(e.rem, TokenNum(to_u32(take(s0.rem, n))))

\* natural_sort::str_token: take_while1(normal)
str_token(inp) ==
    LET n == prefix_len(inp, Chars \ {DATE_START, NUM_START}) IN
    IF n = 0 THEN Fail ELSE Parsed(drop(inp, n), TokenStr(take(inp, n)))

\* natural_sort::token: alt((str_token, num, range))
alt_num(inp, n) == IF n.ok THEN n ELSE range(inp)

alt_str_token(inp, s) == IF s.ok THEN s ELSE alt_num(inp, num(inp))

token(inp) == alt_str_token(inp, str_token(inp))

\* the call of TokenIterator::next that panics
TokenPanic == [kind |-> "Panic"]

RECURSIVE tokens(_)
\* TokenIterator::next on the result of token(self.remain)
next(t) ==
    IF t.panic THEN <<TokenPanic>>
    ELSE IF t.ok THEN <<t.val>> \o tokens(t.rem) ELSE <<>>

\* TokenIterator: the tokens it yields, ending at the end of the string, at
\* the first place no token parses or at the call of next that panics
tokens(remain) == IF remain = <<>> THEN <<>> ELSE next(token(remain))

\* Ord for CmpDate
cmp_date(a, b) == then_with(opt_int_cmp(a.year, b.year), str_cmp(a.rest, b.rest))

\* Ord for CmpRange
cmp_range(x, y) ==
    IF x.kind = "Range" /\ y.kind = "Range"
    THEN then_with(cmp_date(x.a, y.a), cmp_date(x.b, y.b))
    ELSE cmp_date(x.a, y.a)

\* PartialOrd for Token: None for tokens of different kinds
token_partial_cmp(x, y) ==
    IF x.kind = "Str" /\ y.kind = "Str" THEN Some(unicase_cmp(x.str, y.str))
    ELSE IF x.kind = "Date" /\ y.kind = "Date" THEN Some(cmp_range(x.range, y.range))
    ELSE IF x.kind = "Num" /\ y.kind = "Num" THEN Some(int_cmp(x.num, y.num))
    ELSE None

RECURSIVE natural_cmp_loop(_, _, _)
\* while let Some((a_t, b_t)) = iter.next() { .. } over a_i.zip(b_i)
\* Zip::next asks a_i for its next token and, if there is one, b_i
natural_cmp_loop(o, a_t, b_t) ==
    IF a_t = <<>> THEN o
    ELSE IF Head(a_t) = TokenPanic THEN Panics
    ELSE IF b_t = <<>> THEN o
    ELSE IF Head(b_t) = TokenPanic THEN Panics
    ELSE IF o # Equal THEN o
    ELSE LET c == token_partial_cmp(Head(a_t), Head(b_t)) IN
         natural_cmp_loop(IF is_some(c) THEN unwrap(c) ELSE o, Tail(a_t), Tail(b_t))

\* natural_sort::natural_cmp
natural_cmp(a, b) == natural_cmp_loop(Equal, tokens(a), tokens(b))

-----------------------------------------------------------------------------
(* Sort keys and bib_ordering *)

\* The ordinary variables a reference may carry; a reference is a function
\* from them to Option<string> (plain text, so strip_markup leaves it as is).
Variables == {"title", "genre"}

\* SortSource::Variable(AnyVariable::Ordinary(v)), SortSource::Variable(citation-number),
\* SortSource::Macro(name).  The style's sort macros are <text variable="v"/>,
\* each named after the variable it renders.
Ordinary(v) == [kind |-> "Ordinary", name |-> v]
CitationNumber == [kind |-> "CitationNumber"]
Macro(v) == [kind |-> "Macro", name |-> v]

Ascending == "Ascending"
Descending == "Descending"

\* SortKey { sort_source, direction: Option<SortDirection> }
SortKey(source, direction) == [sort_source |-> source, direction |-> direction]

\* ctx_sort_string: the macro walked in sort mode; text_variable gives the
\* variable's text, or the empty string when the reference lacks it
ctx_sort_string(reference, macro_name) ==
    IF is_some(reference[macro_name]) THEN unwrap(reference[macro_name]) ELSE <<>>

\* NaturalCmp::new
NaturalCmp_new(str) == IF str = <<>> THEN None ELSE Some(str)

\* the Demoted of compare_demoting_none's result
Demoted_Left == "Left"
Demoted_Right == "Right"

\* T::partial_cmp(..).unwrap_or(Equal) for the three T bib_ordering compares:
\* NaturalCmp, UniCase<SmartString> and u32
partial_cmp(T, aaa, bbb) ==
    CASE T = "NaturalCmp" -> natural_cmp(aaa, bbb)
      [] T = "UniCase" -> unicase_cmp(aaa, bbb)
      [] T = "u32" -> int_cmp(aaa, bbb)

\* compare_demoting_none::<T>
compare_demoting_none(T, aa, bb) ==
    IF aa = None /\ bb = None THEN <<Equal, None>>
    ELSE IF aa = None THEN <<Greater, Some(Demoted_Left)>>
    ELSE IF bb = None THEN <<Less, Some(Demoted_Right)>>
    ELSE <<partial_cmp(T, unwrap(aa), unwrap(bb)), None>>

\* the `ord = match (key.direction.as_ref(), demoted)` of bib_ordering
directed(direction, o, demoted) ==
    IF demoted = Some(Demoted_Left) THEN Greater
    ELSE IF demoted = Some(Demoted_Right) THEN Less
    ELSE IF direction = Some(Descending) THEN reverse(o)
    ELSE o

\* FnvHashMap<(ID, Atom, SortKey), string>
EmptyCache == [k \in {} |-> <<>>]
cache_insert(cache, k, v) ==
    [x \in DOMAIN cache \cup {k} |-> IF x = k THEN v ELSE cache[x]]

\* sort_cache.entry((cache_id, macro_name, key)).or_insert_with(|| ctx_sort_string(ctx, macro_name))
cache_entry(sort_cache, cache_id, reference, macro_name, key) ==
    LET k == <<cache_id, macro_name, key>> IN
    IF k \in DOMAIN sort_cache
    THEN [cache |-> sort_cache, str |-> sort_cache[k]]
    ELSE LET v == ctx_sort_string(reference, macro_name) IN
         [cache |-> cache_insert(sort_cache, k, v), str |-> v]

\* the closure cached_sort_string of bib_ordering: it captures a_id, so the
\* entry it reads or fills is keyed by a_id for either context
cached_sort_string(sort_cache, a_id, reference, macro_name, key) ==
    cache_entry(sort_cache, a_id, reference, macro_name, key)

\* the arm SortSource::Macro of bib_ordering's match: the comparison of the
\* two strings read
macro_compare(a_string, b_string) ==
    [cache |-> b_string.cache,
     x |-> compare_demoting_none("NaturalCmp", NaturalCmp_new(a_string.str),
                                 NaturalCmp_new(b_string.str))]

\* let b_string = cached_sort_string(b_ctx, ..), on the cache a_string left
macro_b_string(a_string, a, b, key) ==
    macro_compare(a_string,
                  cached_sort_string(a_string.cache, a.id, b.reference,
                                     key.sort_source.name, key))

\* let a_string = cached_sort_string(a_ctx, ..)
macro_ordering(sort_cache, a, b, key) ==
    macro_b_string(cached_sort_string(sort_cache, a.id, a.reference,
                                      key.sort_source.name, key), a, b, key)

\* the arm SortSource::Variable of bib_ordering's match
variable_ordering(a, b, any) ==
    IF any.kind = "CitationNumber"
    THEN compare_demoting_none("u32", Some(a.cnum), Some(b.cnum))
    ELSE compare_demoting_none("UniCase", a.reference[any.name], b.reference[any.name])

\* `ord = match (key.direction.as_ref(), demoted)` on the (o, demoted) of a
\* macro key, with the cache the key's reads left
macro_directed(key, m) ==
    [cache |-> m.cache, ord |-> directed(key.direction, m.x[1], m.x[2])]

\* the same on the (o, demoted) of a variable key
variable_directed(sort_cache, key, x) ==
    [cache |-> sort_cache, ord |-> directed(key.direction, x[1], x[2])]

\* one turn of `for key in sort.keys.iter()`: the new ord and the cache
key_ordering(sort_cache, a, b, key) ==
    IF key.sort_source.kind = "Macro"
    THEN macro_directed(key, macro_ordering(sort_cache, a, b, key))
    ELSE variable_directed(sort_cache, key, variable_ordering(a, b, key.sort_source))

\* what the loop of bib_ordering does with the ord of the keys before and
\* the ord of this key: the assignment `ord = match ..` replaces it
next_ord(ord, key_ord) == key_ord

RECURSIVE bib_ordering_loop(_, _, _, _, _)
\* the turn for the next key, k being the outcome of this one
bib_ordering_next(ord, k, a, b, keys) ==
    bib_ordering_loop(k.cache, next_ord(ord, k.ord), a, b, keys)

\* a panic under a key's comparison leaves the loop and the function
bib_ordering_loop(sort_cache, ord, a, b, keys) ==
    IF keys = <<>> \/ ord = Panics THEN [cache |-> sort_cache, ord |-> ord]
    ELSE bib_ordering_next(ord, key_ordering(sort_cache, a, b, Head(keys)), a, b, Tail(keys))

\* bib_ordering: a and b are (id, ctx, cnum), here [id, reference, cnum]
bib_ordering(sort_cache, a, b, sort) ==
    bib_ordering_loop(sort_cache, Equal, a, b, sort)

Item(id, reference, cnum) == [id |-> id, reference |-> reference, cnum |-> cnum]

-----------------------------------------------------------------------------
(* sorted_refs *)

\* FnvHashMap<Atom, u32>
EmptyMap == [k \in {} |-> 0]
map_insert(m, k, v) == [x \in DOMAIN m \cup {k} |-> IF x = k THEN v ELSE m[x]]

\* "Put all the cited refs in": st is [preordered, citation_numbers, i]
RECURSIVE push_cited(_, _, _)
push_cited(st, all, all_cite_ids) ==
    IF all_cite_ids = <<>> THEN st
    ELSE LET ref_id == Head(all_cite_ids) IN
         IF ref_id \in all /\ ref_id \notin DOMAIN st.citation_numbers
         THEN push_cited([preordered |-> Append(st.preordered, ref_id),
                          citation_numbers |-> map_insert(st.citation_numbers, ref_id, st.i),
                          i |-> st.i + 1], all, Tail(all_cite_ids))
         ELSE push_cited(st, all, Tail(all_cite_ids))

\* "Then all the uncited ones"
RECURSIVE push_uncited(_, _)
push_uncited(st, uncited_ordered) ==
    IF uncited_ordered = <<>> THEN st
    ELSE LET id == Head(uncited_ordered) IN
         push_uncited([preordered |-> Append(st.preordered, id),
                       citation_numbers |-> map_insert(st.citation_numbers, id, st.i),
                       i |-> st.i + 1], Tail(uncited_ordered))

\* the closure given to preordered.sort_by: with_bib_context gives None for
\* an id without a reference, and the closure then answers Equal
sort_closure(refdata, citation_numbers, sort, sort_cache, a, b) ==
    IF a \in DOMAIN refdata /\ b \in DOMAIN refdata
    THEN bib_ordering(sort_cache,
                      Item(a, refdata[a], citation_numbers[a]),
                      Item(b, refdata[b], citation_numbers[b]), sort)
    ELSE [cache |-> sort_cache, ord |-> Equal]

\* slice::sort_by on a slice of fewer than 20 elements is an insertion sort
\* from the left: each element x, from the second to the last, is compared
\* as closure(x, left neighbour) and moves left while the answer is Less
RECURSIVE insert_tail(_, _, _, _, _, _)
\* x is put before the last element h of the sorted part: r is the part
\* before h with x in it
insert_before(r, h) == [cache |-> r.cache, v |-> Append(r.v, h), panic |-> r.panic]

\* an unstable insertion: x moves before the elements that compare Equal as well
insert_compared_unstable(refdata, citation_numbers, sort, c, x, sorted) ==
    IF c.ord = Panics THEN [cache |-> c.cache, v |-> sorted, panic |-> TRUE]
    ELSE IF c.ord # Greater
    THEN insert_before(insert_tail(refdata, citation_numbers, sort, c.cache, x,
                                   SubSeq(sorted, 1, Len(sorted) - 1)),
                       sorted[Len(sorted)])
    ELSE [cache |-> c.cache, v |-> Append(sorted, x), panic |-> FALSE]

\* c is the closure's answer for x and the last element of the sorted part;
\* a panic under the closure leaves the sort (panic is TRUE, v is not used)
insert_compared(refdata, citation_numbers, sort, c, x, sorted) ==
    IF c.ord = Panics THEN [cache |-> c.cache, v |-> sorted, panic |-> TRUE]
    ELSE IF c.ord = Less
    THEN insert_before(insert_tail(refdata, citation_numbers, sort, c.cache, x,
                                   SubSeq(sorted, 1, Len(sorted) - 1)),
                       sorted[Len(sorted)])
    ELSE [cache |-> c.cache, v |-> Append(sorted, x), panic |-> FALSE]

\* x, the element behind the sorted part, is inserted into it
insert_tail(refdata, citation_numbers, sort, sort_cache, x, sorted) ==
    IF sorted = <<>> THEN [cache |-> sort_cache, v |-> <<x>>, panic |-> FALSE]
    ELSE insert_compared(refdata, citation_numbers, sort,
                         sort_closure(refdata, citation_numbers, sort, sort_cache,
                                      x, sorted[Len(sorted)]),
                         x, sorted)

RECURSIVE insertion_sort_shift_left(_, _, _, _, _)
\* t is the sorted part so far, rest the elements still to insert
insertion_sort_shift_left(refdata, citation_numbers, sort, t, rest) ==
    IF rest = <<>> \/ t.panic THEN t
    ELSE insertion_sort_shift_left(refdata, citation_numbers, sort,
             insert_tail(refdata, citation_numbers, sort, t.cache, Head(rest), t.v),
             Tail(rest))

sort_by(refdata, citation_numbers, sort, sort_cache, v) ==
    IF Len(v) <= 1 THEN [cache |-> sort_cache, v |-> v, panic |-> FALSE]
    ELSE insertion_sort_shift_left(refdata, citation_numbers, sort,
             [cache |-> sort_cache, v |-> <<Head(v)>>, panic |-> FALSE], Tail(v))

\* for (i, ref_id) in refs.iter().enumerate() { citation_numbers.insert(ref_id, i + 1) }
RECURSIVE renumber(_, _, _)
renumber(citation_numbers, refs, i) ==
    IF i > Len(refs) THEN citation_numbers
    ELSE renumber(map_insert(citation_numbers, refs[i], i), refs, i + 1)

\* the end of sorted_refs: the refs are numbered by their place
number_refs(citation_numbers, refs) == <<refs, renumber(citation_numbers, refs, 1)>>

\* `let refs = if let Some(ref sort) = bib.sort { preordered.sort_by(..) } else { preordered }`
\* the refs sort_by leaves, numbered; Panics when the sort panicked
number_sorted(citation_numbers, sorted) ==
    IF sorted.panic THEN Panics ELSE number_refs(citation_numbers, sorted.v)

sort_preordered(refdata, bib, st) ==
    IF is_some(bib)
    THEN number_sorted(st.citation_numbers,
                       sort_by(refdata, st.citation_numbers, unwrap(bib), EmptyCache,
                               st.preordered))
    ELSE number_refs(st.citation_numbers, st.preordered)

\* sorted_refs: refdata holds the references (all_keys is its domain),
\* all_cite_ids the ref ids of all cites in document order, bib the
\* Option<Sort> of the style's bibliography.  Result: (refs, citation_numbers).
sorted_refs(refdata, all_cite_ids, uncited_ordered, bib) ==
    sort_preordered(refdata, bib,
        push_uncited(push_cited([preordered |-> <<>>, citation_numbers |-> EmptyMap, i |-> 1],
                                DOMAIN refdata, all_cite_ids),
                     uncited_ordered))

\* bib_number: the citation number sorted_refs stores for a reference
bib_number(sorted, ref_id) ==
    IF ref_id \in DOMAIN sorted[2] THEN Some(sorted[2][ref_id]) ELSE None

-----------------------------------------------------------------------------
(* compute, batched_updates *)

\* Ord of ClusterNumber with the two sides swapped
cluster_number_cmp_swapped(x, y) ==
    IF x.kind = "InText" /\ y.kind = "InText" THEN int_cmp(y.num, x.num)
    ELSE IF x.kind = "InText" THEN Greater
    ELSE IF y.kind = "InText" THEN Less
    ELSE then_with(int_cmp(y.num, x.num), int_cmp(y.index, x.index))

\* Ord of ClusterNumber: every InText before every Note, then by ordinal,
\* or by (note number, intra-note index)
cluster_number_cmp(x, y) ==
    IF x.kind = "InText" /\ y.kind = "InText" THEN int_cmp(x.num, y.num)
    ELSE IF x.kind = "InText" THEN Less
    ELSE IF y.kind = "InText" THEN Greater
    ELSE then_with(int_cmp(x.num, y.num), int_cmp(x.index, y.index))

\* ClusterData { id, number, cites }; the style has no <sort> on <citation>,
\* so the cites stay as stored
cluster_data_sorted(D, id) ==
    IF is_some(D.notes[id])
    THEN Some([id |-> id, number |-> unwrap(D.notes[id]), cites |-> D.cites[id]])
    ELSE None

\* cluster_ids.iter().filter_map(|&id| db.cluster_data_sorted(id)).collect()
RECURSIVE filter_map_cluster_data(_, _)
filter_map_cluster_data(D, ids) ==
    IF ids = <<>> THEN <<>>
    ELSE cluster_data_sorted(D, Head(ids)) \o filter_map_cluster_data(D, Tail(ids))

\* clusters.sort_by_key(|cluster| cluster.number), a stable sort
RECURSIVE insert_by_number(_, _)
insert_by_number(x, sorted) ==
    IF sorted = <<>> THEN <<x>>
    ELSE IF cluster_number_cmp(Head(sorted).number, x.number) = Less
         THEN <<Head(sorted)>> \o insert_by_number(x, Tail(sorted))
         ELSE <<x>> \o sorted

RECURSIVE sort_by_key_number(_)
sort_by_key_number(v) ==
    IF Len(v) <= 1 THEN v
    ELSE insert_by_number(Head(v), sort_by_key_number(Tail(v)))

\* clusters_cites_sorted without clusters.sort_by_key: the order of cluster_ids
clusters_cites_unsorted(D) == filter_map_cluster_data(D, D.ids)

clusters_cites_sorted(D) == sort_by_key_number(filter_map_cluster_data(D, D.ids))

\* built_cluster: the rendered string of a cluster, a function of the
\* inputs; here the cluster's cites, one word per cite
built_cluster(D, id) == D.cites[id]

\* upsert_diff: into_h maps every cluster id to Option<string>
\* (None: no entry); the result is the new map and Option<(id, built)>
upsert_diff(into_h, id, built) ==
    [into_h |-> [into_h EXCEPT ![id] = Some(built)],
     diff |-> IF is_some(into_h[id]) /\ unwrap(into_h[id]) = built
              THEN None ELSE Some(<<id, built>>)]

\* clusters.iter().filter_map(|cluster| upsert_diff(..)).collect()
RECURSIVE compute_loop(_, _, _, _)
\* the turn for the next cluster, u being what upsert_diff gave for this one
compute_next(D, u, result, clusters) ==
    compute_loop(D, u.into_h, result \o u.diff, clusters)

compute_loop(D, into_hashmap, result, clusters) ==
    IF clusters = <<>> THEN [last_clusters |-> into_hashmap, result |-> result]
    ELSE compute_next(D, upsert_diff(into_hashmap, Head(clusters).id,
                                     built_cluster(D, Head(clusters).id)),
                      result, Tail(clusters))

\* compute
compute(D, into_hashmap) == compute_loop(D, into_hashmap, <<>>, clusters_cites_sorted(D))

\* all_cite_ids: the cites of the positioned clusters in document order
RECURSIVE all_cite_ids_of(_)
all_cite_ids_of(clusters) ==
    IF clusters = <<>> THEN <<>>
    ELSE Head(clusters).cites \o all_cite_ids_of(Tail(clusters))

all_cite_ids(D) == all_cite_ids_of(clusters_cites_sorted(D))

\* The library: every reference id names a reference without variables; the
\* style has a <bibliography> without <sort>, and nothing is listed uncited.
Library == [r \in RefIds |-> [v \in Variables |-> None]]

db_sorted_refs(D) == sorted_refs(Library, all_cite_ids(D), <<>>, None)

\* get_bibliography_map: one entry per reference of sorted_refs, rendered
\* with its citation number
bibliography_map(s) == [r \in DOMAIN s[2] |-> <<r, s[2][r]>>]

get_bibliography_map(D) == bibliography_map(db_sorted_refs(D))

\* SavedBib::new
SavedBib_new == [sorted_refs |-> <<<<>>, EmptyMap>>, bib_entries |-> EmptyMap]

\* the body of save_and_diff_bibliography, on the map `new` and the
\* sorted_refs read from the db: the new SavedBib and Option<BibliographyUpdate>
diff_bibliography(old, new, sorted) ==
    LET updated_entries == {k \in DOMAIN new :
                              ~(k \in DOMAIN old.bib_entries /\ old.bib_entries[k] = new[k])}
        entry_ids == IF sorted[1] # old.sorted_refs[1] THEN Some(sorted[1]) ELSE None
    IN [last_bibliography |-> [sorted_refs |-> sorted, bib_entries |-> new],
        update |-> IF updated_entries = {} /\ entry_ids = None
                   THEN None
                   ELSE Some([updated_entries |-> [k \in updated_entries |-> new[k]],
                              entry_ids |-> entry_ids])]

\* save_and_diff_bibliography without `last_bibliography.sorted_refs = sorted_refs`:
\* the saved list stays the empty one of SavedBib::new
forget_sorted_refs(b) ==
    [last_bibliography |-> [sorted_refs |-> SavedBib_new.sorted_refs,
                            bib_entries |-> b.last_bibliography.bib_entries],
     update |-> b.update]

save_and_diff_bibliography_forgets_refs(D, old) ==
    forget_sorted_refs(diff_bibliography(old, get_bibliography_map(D), db_sorted_refs(D)))

\* save_and_diff_bibliography
save_and_diff_bibliography(D, old) ==
    diff_bibliography(old, get_bibliography_map(D), db_sorted_refs(D))

\* UpdateSummary { clusters, bibliography }, with the state the two calls left
UpdateSummary(delta, b) ==
    [last_clusters |-> delta.last_clusters, last_bibliography |-> b.last_bibliography,
     clusters |-> delta.result, bibliography |-> b.update]

\* batched_updates
batched_updates(D, into_hashmap, old) ==
    UpdateSummary(compute(D, into_hashmap), save_and_diff_bibliography(D, old))

-----------------------------------------------------------------------------
(* cite_positions: the position and first-reference-note-number of every   *)
(* cite, from the clusters of clusters_cites_sorted.  A cite is named by    *)
(* its cluster and its place in the cluster.                                *)

\* attribute_option_int(node, "near-note-distance"): the style sets none
attribute_near_note_distance == None

\* near_note_distance with 0 for the default
near_note_distance_no_default ==
    IF is_some(attribute_near_note_distance) THEN unwrap(attribute_near_note_distance) ELSE 0

\* Citation.near_note_distance: the attribute, or 5
near_note_distance ==
    IF is_some(attribute_near_note_distance) THEN unwrap(attribute_near_note_distance) ELSE 5

First == "First"
Ibid == "Ibid"
IbidNear == "IbidNear"
Subsequent == "Subsequent"
NearNote == "NearNote"

\* the traversal state: where each reference was first and last cited, the
\* last in-text cluster and the last note cluster, and the positions found
PositionLoop ==
    [first_seen |-> [r \in RefIds |-> None], last_seen |-> [r \in RefIds |-> None],
     prev_in_text |-> None, prev_note |-> None,
     map |-> [id \in ClusterIds |-> <<>>]]

\* whether the note number n lies no more than near-note-distance before
\* the cluster numbered `number`
is_near(number, n) ==
    number.kind = "Note" /\ n <= number.num /\ number.num - n <= near_note_distance

\* the note number of a cluster number, None for an in-text cluster
note_of(number) == IF number.kind = "Note" THEN Some(number.num) ELSE None

\* the cluster before this one among those of its kind
prev_cluster(st, cluster) ==
    IF cluster.number.kind = "InText" THEN st.prev_in_text ELSE st.prev_note

\* the cite immediately before the j-th cite of the cluster, if it cites the
\* same reference: Some(its note number), else None.  Inside a cluster it
\* is the cite before; for the first cite it is the cluster before, of the
\* same kind, when all it cites is this reference.
matching_prev(st, cluster, j) ==
    IF j > 1
    THEN IF cluster.cites[j - 1] = cluster.cites[j]
         THEN Some(note_of(cluster.number)) ELSE None
    ELSE IF is_some(prev_cluster(st, cluster))
            /\ unwrap(prev_cluster(st, cluster)).cites # <<>>
            /\ \A i \in 1..Len(unwrap(prev_cluster(st, cluster)).cites) :
                  unwrap(prev_cluster(st, cluster)).cites[i] = cluster.cites[j]
         THEN Some(note_of(unwrap(prev_cluster(st, cluster)).number))
         ELSE None

\* a repeat of a reference first cited in the note first_note
position_after_note(number, first_note, last_note, prev) ==
    IF is_some(prev)
    THEN <<IF is_some(unwrap(prev)) /\ is_near(number, unwrap(unwrap(prev)))
           THEN IbidNear ELSE Ibid,
           Some(first_note)>>
    ELSE IF is_near(number, last_note) THEN <<NearNote, Some(first_note)>>
    ELSE <<Subsequent, Some(first_note)>>

\* a repeat of a reference first cited in the text: a note cite of it counts
\* as its first cite
position_after_intext(number, prev) ==
    IF number.kind = "Note" THEN <<First, None>>
    ELSE IF is_some(prev) THEN <<Ibid, None>>
    ELSE <<Subsequent, None>>

\* (Position, first-reference-note-number) of a cite, seen being where its
\* reference was first cited
cite_position(number, seen, last, prev) ==
    IF seen = None THEN <<First, None>>
    ELSE IF unwrap(seen).kind = "Note"
    THEN position_after_note(number, unwrap(seen).num, unwrap(last).num, prev)
    ELSE position_after_intext(number, prev)

\* the state after the j-th cite of the cluster
visit_cite(st, cluster, j) ==
    [st EXCEPT
        !.map[cluster.id] =
            Append(@, cite_position(cluster.number, st.first_seen[cluster.cites[j]],
                                    st.last_seen[cluster.cites[j]],
                                    matching_prev(st, cluster, j))),
        !.first_seen[cluster.cites[j]] =
            IF @ = None \/ (unwrap(@).kind = "InText" /\ cluster.number.kind = "Note")
            THEN Some(cluster.number) ELSE @,
        !.last_seen[cluster.cites[j]] = Some(cluster.number)]

RECURSIVE visit_cites(_, _, _)
visit_cites(st, cluster, j) ==
    IF j > Len(cluster.cites) THEN st
    ELSE visit_cites(visit_cite(st, cluster, j), cluster, j + 1)

\* the cluster becomes the last one of its kind
leave_cluster(st, cluster) ==
    IF cluster.number.kind = "InText"
    THEN [st EXCEPT !.prev_in_text = Some(cluster)]
    ELSE [st EXCEPT !.prev_note = Some(cluster)]

RECURSIVE visit_clusters(_, _)
visit_clusters(st, clusters) ==
    IF clusters = <<>> THEN st
    ELSE visit_clusters(leave_cluster(visit_cites(st, Head(clusters), 1), Head(clusters)),
                        Tail(clusters))

\* cite_positions: cluster id -> the (Position, Option<u32>) of its cites
cite_positions(D) == visit_clusters(PositionLoop, clusters_cites_sorted(D)).map

-----------------------------------------------------------------------------
(* Collapsing citation numbers into ranges (ir/transforms.rs) *)

\* CnumIx { cnum, ix, force_single }
CnumIx(cnum, ix, force_single) == [cnum |-> cnum, ix |-> ix, force_single |-> force_single]

\* CnumIx::new
CnumIx_new(c, ix) == CnumIx(c, ix, FALSE)

\* RangePiece::Range(a, b) and RangePiece::Single(a)
RangePiece_Range(a, b) == [kind |-> "Range", a |-> a, b |-> b]
RangePiece_Single(a) == [kind |-> "Single", a |-> a]

\* attempt_append taking any larger number for the next one of a range
attempt_append_any_increase(self, nxt) ==
    IF nxt.force_single
    THEN [self |-> RangePiece_Single(nxt), emit |-> Some(self)]
    ELSE IF self.kind = "Single" /\ self.a.cnum <= nxt.cnum - 1
    THEN [self |-> RangePiece_Range(self.a, nxt), emit |-> None]
    ELSE IF self.kind = "Range" /\ self.b.cnum <= nxt.cnum - 1
    THEN [self |-> RangePiece_Range(self.a, nxt), emit |-> None]
    ELSE [self |-> RangePiece_Single(nxt), emit |-> Some(self)]

\* RangePiece::attempt_append: the piece self becomes, and the piece to emit
\* when nxt could not be appended. For nxt.cnum = 0 the u32 nxt.cnum - 1
\* wraps to u32::MAX where overflow is not checked, which equals no cnum
\* modelled here, as -1 equals none
attempt_append(self, nxt) ==
    IF nxt.force_single
    THEN [self |-> RangePiece_Single(nxt), emit |-> Some(self)]
    ELSE IF self.kind = "Single" /\ self.a.cnum = nxt.cnum - 1
    THEN [self |-> RangePiece_Range(self.a, nxt), emit |-> None]
    ELSE IF self.kind = "Range" /\ self.b.cnum = nxt.cnum - 1
    THEN [self |-> RangePiece_Range(self.a, nxt), emit |-> None]
    ELSE [self |-> RangePiece_Single(nxt), emit |-> Some(self)]

\* u32::checked_sub: None where the u32 a - b overflows, which panics under
\* overflow checks and wraps without them
checked_sub(a, b) == IF a >= b THEN Some(a - b) ELSE None

\* whether attempt_append(self, nxt) evaluates nxt.cnum - 1 with overflow:
\* the force_single arm comes first and subtracts nothing, the guard of the
\* Single and of the Range arm subtracts
attempt_append_overflows(self, nxt) ==
    ~nxt.force_single /\ checked_sub(nxt.cnum, 1) = None

RECURSIVE collapse_loop(_, _, _)
\* if let Some(emit) = wip.attempt_append(num) { pieces.push(emit) }
collapse_push(pieces, appended, nums) ==
    collapse_loop(pieces \o appended.emit, appended.self, nums)

\* for &num in &nums[1..] { .. } pieces.push(wip)
collapse_loop(pieces, wip, nums) ==
    IF nums = <<>> THEN Append(pieces, wip)
    ELSE collapse_push(pieces, attempt_append(wip, Head(nums)), Tail(nums))

\* collapse_ranges
collapse_ranges(nums) ==
    IF nums = <<>> THEN <<>>
    ELSE collapse_loop(<<>>, RangePiece_Single(Head(nums)), Tail(nums))

\* the cnums group_and_collapse hands to collapse_ranges for the cite u at
\* index ix (0-based) and the cites that follow it in its group: a cite is
\* [num, has_locator], num its citation number (or year suffix) if any
RECURSIVE following_cnums(_, _, _)
following_cnums(following, ix, nix) ==
    IF nix >= Len(following) THEN <<>>
    ELSE (IF is_some(following[nix + 1].num)
          THEN <<CnumIx(unwrap(following[nix + 1].num), ix + nix + 1,
                        following[nix + 1].has_locator)>>
          ELSE <<>>)
         \o following_cnums(following, ix, nix + 1)

group_cnums(u, following, ix) ==
    (IF is_some(u.num) THEN <<CnumIx_new(unwrap(u.num), ix)>> ELSE <<>>)
       \o following_cnums(following, ix, 0)

\* group_and_collapse, Collapse::CitationNumber, on a cluster's cites: the
\* first cite is_first, every other should_collapse, so the group is the
\* cluster; the result is the first cite's collapsed_ranges
collapsed_ranges(cites) ==
    IF cites = <<>> THEN <<>>
    ELSE collapse_ranges(group_cnums(Head(cites), Tail(cites), 0))

-----------------------------------------------------------------------------
(* The processor as a state machine *)

TheDb == Db(cluster_ids, cluster_note_number, cluster_cites)

Store(D) ==
    /\ cluster_ids' = D.ids
    /\ cluster_note_number' = D.notes
    /\ cluster_cites' = D.cites

\* Processor::new: no clusters, nothing emitted yet
InitProcessor ==
    /\ cluster_ids = <<>>
    /\ cluster_note_number = [id \in ClusterIds |-> None]
    /\ cluster_cites = [id \in ClusterIds |-> <<>>]
    /\ last_clusters = [id \in ClusterIds |-> None]
    /\ last_bibliography = SavedBib_new
    /\ call = [op |-> "new", result |-> Ok]

Init == InitProcessor /\ args = None /\ ret = None

InitClusters(clusters) ==
    /\ Store(init_clusters(TheDb, clusters))
    /\ call' = [op |-> "init_clusters", result |-> Ok]
    /\ UNCHANGED <<last_clusters, last_bibliography, args, ret>>

InsertCites(id, cites) ==
    /\ Store(insert_cites(TheDb, id, cites))
    /\ call' = [op |-> "insert_cites", result |-> Ok]
    /\ UNCHANGED <<last_clusters, last_bibliography, args, ret>>

RemoveCluster(id) ==
    /\ Store(remove_cluster(TheDb, id))
    /\ call' = [op |-> "remove_cluster", result |-> Ok]
    /\ UNCHANGED <<last_clusters, last_bibliography, args, ret>>

SetClusterOrder(positions) ==
    \E r \in {set_cluster_order_inner(TheDb, positions)} :
    /\ Store(r.D)
    /\ call' = [op |-> "set_cluster_order", result |-> r.result, positions |-> positions]
    /\ UNCHANGED <<last_clusters, last_bibliography, args, ret>>

PreviewCitationCluster(cites, position) ==
    \E r \in {preview_citation_cluster(TheDb, cites, position)} :
    /\ Store(r.D)
    /\ call' = [op |-> "preview_citation_cluster", result |-> r.result]
    /\ UNCHANGED <<last_clusters, last_bibliography, args, ret>>

\* compute() and batched_updates() are called on the processor or on a
\* snapshot of it (ParallelDatabase::snapshot), which shares last_clusters and
\* last_bibliography. args holds the job of every call under way, None when
\* there is none.
Callers == {"processor", "snapshot"}
NoJobs == [c \in Callers |-> None]
jobs == IF args = None THEN NoJobs ELSE args.job
under_way(c) == is_some(jobs[c])
job_of(c) == unwrap(jobs[c])
with_jobs(js) == IF js = NoJobs THEN None ELSE [fn |-> "calls", job |-> js]
with_job(c, j) == with_jobs([jobs EXCEPT ![c] = j])

\* cite_positions of the document as it stands
CitePositions ==
    /\ call' = [op |-> "cite_positions", result |-> cite_positions(TheDb),
                positions |-> call.positions]
    /\ UNCHANGED <<db, last_clusters, last_bibliography, args, ret>>

\* the inputs of the calls
\* in the text, or in note 1 or 2: note numbers rise, stay and fall
Notes == {None, Some(1), Some(2)}
Positions(ids, notes) ==
    SeqsUpTo({ClusterPosition(id, note) : id \in ids, note \in notes}, MaxPositions)
CiteLists(refs) == SeqsUpTo(refs, MaxCites)
Clusters(ids, refs) ==
    SeqsUpTo({Cluster(id, cites) : id \in ids, cites \in CiteLists(refs)}, MaxPositions)

\* a document of the clusters c1 and c2, both without cites, reordered at will
OrderIds == {"c1", "c2"}
OrderRefs == {}

NextOrder ==
    \/ \E clusters \in Clusters(OrderIds, OrderRefs) : InitClusters(clusters)
    \/ \E id \in OrderIds, cites \in CiteLists(OrderRefs) : InsertCites(id, cites)
    \/ \E id \in OrderIds : RemoveCluster(id)
    \/ \E positions \in Positions(OrderIds, Notes) : SetClusterOrder(positions)

SpecOrder == Init /\ [][NextOrder]_vars

\* a document of c1 and c2 ordered once by a longer list, so that an in-text
\* position can stand between two notes
MaxReorder == 3
ReorderPositions ==
    SeqsUpTo({ClusterPosition(id, note) : id \in OrderIds, note \in Notes}, MaxReorder)

\* init_clusters, then one set_cluster_order, as a host does on loading
NextReorder ==
    \/ call.op = "new" /\ InitClusters(<<Cluster("c1", <<>>), Cluster("c2", <<>>)>>)
    \/ call.op = "init_clusters" /\ \E positions \in ReorderPositions : SetClusterOrder(positions)

SpecReorder == Init /\ [][NextReorder]_vars

\* a document of up to three clusters of cites, initialised, ordered once
\* (in any order of the clusters, in the text or in notes 1, 2, 3 and 9) and
\* then asked for its cite positions
DocIds == <<"c1", "c2", "c3">>
PositionNotes == {None, Some(1), Some(2), Some(3), Some(9)}
PositionDocs ==
    UNION {{[i \in 1..k |-> Cluster(DocIds[i], cites[i])] :
               cites \in [1..k -> CiteLists(RefIds) \ {<<>>}]} : k \in 1..Len(DocIds)}
DocPositions(ids) ==
    {p \in [1..Len(ids) -> {ClusterPosition(id, note) :
                               id \in {ids[i] : i \in 1..Len(ids)}, note \in PositionNotes}] :
        \A i, j \in 1..Len(ids) : p[i].id = p[j].id => i = j}

NextPositions ==
    \/ call.op = "new" /\ \E clusters \in PositionDocs : InitClusters(clusters)
    \/ call.op = "init_clusters" /\ \E positions \in DocPositions(cluster_ids) :
          SetClusterOrder(positions)
    \/ call.op = "set_cluster_order" /\ call.result = Ok /\ CitePositions

SpecPositions == Init /\ [][NextPositions]_vars

\* a document of the cluster c1, with previews
PreviewIds == {"c1", PREVIEW_CLUSTER_ID}
PreviewRefs == {"one"}
PreviewPositions ==
    {ReplaceCluster(id) : id \in PreviewIds}
        \cup {MarkWithZero(p) : p \in Positions(PreviewIds, Notes)}

Next ==
    \/ \E id \in {"c1"}, cites \in CiteLists(PreviewRefs) : InsertCites(id, cites)
    \/ \E id \in {"c1"} : RemoveCluster(id)
    \/ \E positions \in Positions({"c1"}, Notes) : SetClusterOrder(positions)
    \/ \E cites \in CiteLists(PreviewRefs), position \in PreviewPositions :
          PreviewCitationCluster(cites, position)

Spec == Init /\ [][Next]_vars

\* a document of in-text clusters, computed and recomputed
ComputeIds == {"c1", "c2"}
ComputeRefs == {"one"}


-----------------------------------------------------------------------------
(* The pure functions of sort.rs, each applied once to inputs drawn from a *)
(* bounded set: args holds the inputs, ret the result.                      *)

\* longest list of cited reference ids handed to sorted_refs
MaxCited == 3
\* longest list of uncited reference ids handed to sorted_refs
MaxUncited == 2
\* longest list of keys of a <sort>
MaxKeys == 2
\* most tokens a sort string is built from
MaxTokens == 2

Pure == <<cluster_ids, cluster_note_number, cluster_cites, last_clusters,
          last_bibliography, call, args>>

\* sorted_refs: three references, of which one has no title, cited in any
\* order (also by a cite of an unknown reference) and listed uncited at will
SortRefs == {"one", "two", "three"}
SortLibrary ==
    [r \in SortRefs |->
        [v \in Variables |->
            IF v = "title" /\ r = "one" THEN Some(<<"b">>)
            ELSE IF v = "title" /\ r = "two" THEN Some(<<"a">>)
            ELSE None]]
SortBibs ==
    {None,
     Some(<<SortKey(Ordinary("title"), None)>>),
     Some(<<SortKey(Ordinary("title"), Some(Descending))>>),
     Some(<<SortKey(Macro("title"), None)>>),
     Some(<<SortKey(Ordinary("genre"), None)>>)}

\* the uncited list names each reference once, cited or not
UncitedLists ==
    {u \in SeqsUpTo(SortRefs, MaxUncited) : \A i, j \in 1..Len(u) : u[i] = u[j] => i = j}

InitSort ==
    /\ InitProcessor
    /\ ret = None
    /\ args \in [fn : {"sorted_refs"},
                 all_cite_ids : SeqsUpTo(SortRefs \cup {"unknown"}, MaxCited),
                 uncited_ordered : UncitedLists,
                 bib : SortBibs]

SortedRefs ==
    /\ args.fn = "sorted_refs"
    /\ ret = None
    /\ ret' = Some(sorted_refs(SortLibrary, args.all_cite_ids, args.uncited_ordered, args.bib))
    /\ UNCHANGED Pure

SpecSort == InitSort /\ [][SortedRefs]_vars

\* bib_ordering: two references a (citation number 1) and b (citation
\* number 2) with or without a title and a genre, under any list of keys
FieldValues == {None, Some(<<"a">>), Some(<<"b">>)}
References == [Variables -> FieldValues]
SortSources == {Ordinary("title"), Ordinary("genre"), Macro("title"), CitationNumber}
SortKeys == {SortKey(src, dir) : src \in SortSources, dir \in {None, Some(Descending)}}

InitOrdering ==
    /\ InitProcessor
    /\ ret = None
    /\ args \in [fn : {"bib_ordering"},
                 a : {Item("a", r, 1) : r \in References},
                 b : {Item("b", r, 2) : r \in References},
                 sort : SeqsUpTo(SortKeys, MaxKeys)]

BibOrdering ==
    /\ args.fn = "bib_ordering"
    /\ ret = None
    /\ ret' = Some(bib_ordering(EmptyCache, args.a, args.b, args.sort).ord)
    /\ UNCHANGED Pure

SpecOrdering == InitOrdering /\ [][BibOrdering]_vars

\* natural_cmp: three sort strings, each the concatenation of some tokens;
\* the last is a date whose year, i32::MAX + 1, to_i32 cannot hold
NatTokens ==
    {<<"a">>, <<"b">>,
     <<NUM_START, "1", NUM_END>>, <<NUM_START, "2", NUM_END>>,
     <<DATE_START, "1", "_", DATE_END>>,
     <<DATE_START, "2", "1", "4", "7", "4", "8", "3", "6", "4", "8", "_", DATE_END>>}

RECURSIVE concat(_)
concat(ts) == IF ts = <<>> THEN <<>> ELSE Head(ts) \o concat(Tail(ts))

\* NaturalCmp::new admits no empty string
NatStrings == {concat(ts) : ts \in SeqsUpTo(NatTokens, MaxTokens)} \ {<<>>}

InitNat ==
    /\ InitProcessor
    /\ ret = None
    /\ args \in [fn : {"natural_cmp"}, a : NatStrings, b : NatStrings, c : NatStrings]

NaturalCmp ==
    /\ args.fn = "natural_cmp"
    /\ ret = None
    /\ ret' = Some([ab |-> natural_cmp(args.a, args.b),
                    ba |-> natural_cmp(args.b, args.a),
                    bc |-> natural_cmp(args.b, args.c),
                    ac |-> natural_cmp(args.a, args.c)])
    /\ UNCHANGED Pure

SpecNat == InitNat /\ [][NaturalCmp]_vars

-----------------------------------------------------------------------------
\* collapse_ranges on lists of numbers among 1, 2, 3 and 5, any of them
\* force_single, ix the place in the list; and the collapsing of a cluster
\* of cites with or without a citation number and a locator
MaxNums == 4
MaxGroup == 3
Cnums == {1, 2, 3, 5}
NumLists ==
    UNION {{[i \in 1..k |-> CnumIx(c[i], i - 1, f[i])] :
               c \in [1..k -> Cnums], f \in [1..k -> BOOLEAN]} : k \in 0..MaxNums}
GroupCites ==
    SeqsUpTo([num : {None, Some(1), Some(2), Some(3)}, has_locator : BOOLEAN], MaxGroup)

InitCollapse ==
    /\ InitProcessor
    /\ ret = None
    /\ \/ args \in [fn : {"collapse_ranges"}, nums : NumLists]
       \/ args \in [fn : {"group_and_collapse"}, cites : GroupCites]

CollapseRanges ==
    /\ args.fn = "collapse_ranges"
    /\ ret = None
    /\ ret' = Some(collapse_ranges(args.nums))
    /\ UNCHANGED Pure

GroupAndCollapse ==
    /\ args.fn = "group_and_collapse"
    /\ ret = None
    /\ ret' = Some(collapsed_ranges(args.cites))
    /\ UNCHANGED Pure

NextCollapse == CollapseRanges \/ GroupAndCollapse

SpecCollapse == InitCollapse /\ [][NextCollapse]_vars

-----------------------------------------------------------------------------
(* Properties *)

\* C1: if set_cluster_order(positions) returns an error, cluster_ids and the
\* note number of every cluster id are what they were before the call.
C1_FailedOrderKeepsState ==
    [][(call'.op = "set_cluster_order" /\ call'.result # Ok)
          => (cluster_ids' = cluster_ids /\ cluster_note_number' = cluster_note_number)]_vars

\* C2: after preview_citation_cluster returns Ok, cluster_ids and the note
\* number and the cites of every cluster id, the preview id included, are
\* what they were before the call.
C2_PreviewOkKeepsState ==
    [][(call'.op = "preview_citation_cluster" /\ call'.result = Ok)
          => (/\ cluster_ids' = cluster_ids
              /\ cluster_note_number' = cluster_note_number
              /\ cluster_cites' = cluster_cites)]_vars

\* C3: when preview_citation_cluster fails, with whichever error, no change
\* to cluster_ids, to a note number or to a cluster's cites persists.
C3_PreviewErrKeepsState ==
    [][(call'.op = "preview_citation_cluster" /\ call'.result # Ok)
          => (/\ cluster_ids' = cluster_ids
              /\ cluster_note_number' = cluster_note_number
              /\ cluster_cites' = cluster_cites)]_vars

\* C4: right after compute() or batched_updates(), with no input changed, a
\* further compute() returns an empty cluster diff; and right after
\* batched_updates() a further batched_updates() returns an empty cluster
\* diff and no bibliography update.
C4_SecondCallEmpty ==
    /\ call.op \in {"compute", "batched_updates"}
          => compute(TheDb, last_clusters).result = <<>>
    /\ call.op = "batched_updates"
          => LET u == batched_updates(TheDb, last_clusters, last_bibliography) IN
             u.clusters = <<>> /\ u.bibliography = None

\* the first batched_updates() of a document reported a cluster and the
\* bibliography, and the state it left is the one the second call starts from
C4_Witness ==
    /\ call.op = "batched_updates"
    /\ call.result # <<>>
    /\ call.bibliography # None

\* the clusters with a position in the document: those of cluster_ids that
\* have a note number (the clusters compute() walks)
PositionedClusters ==
    {id \in ClusterIds : contains(cluster_ids, id) /\ is_some(cluster_note_number[id])}

\* C5: compute() returns exactly one pair (id, built string) for each
\* positioned cluster whose built string is new or differs from the string
\* last emitted for the id (the entry of the last-emitted map when compute()
\* was called), no pair for any other cluster, and leaves the last-emitted
\* map holding the built string of every positioned cluster.
C5_ComputeDiff ==
    [][\A c \in Callers :
          (under_way(c) /\ job_of(c).fn = "compute" /\ ~(under_way(c))')
             => LET changed == {id \in PositionedClusters :
                                  job_of(c).before[id] # Some(built_cluster(TheDb, id))}
                    result == call'.result
                IN /\ \A id \in changed :
                         Cardinality({i \in 1..Len(result) : result[i][1] = id}) = 1
                   /\ \A i \in 1..Len(result) :
                         /\ result[i][1] \in changed
                         /\ result[i][2] = built_cluster(TheDb, result[i][1])
                   /\ \A id \in PositionedClusters :
                         last_clusters'[id] = Some(built_cluster(TheDb, id))]_vars

\* C6: in the result of sorted_refs, the citation number stored for every
\* reference of the ordered list is its 1-based index in the list.
C6_NumberIsIndex ==
    (args # None /\ args.fn = "sorted_refs" /\ ret # None)
       => LET refs == unwrap(ret)[1]
              citation_numbers == unwrap(ret)[2]
          IN \A i \in 1..Len(refs) : citation_numbers[refs[i]] = i

\* the ordering a list of keys gives when the first key that does not
\* compare Equal decides
RECURSIVE first_not_equal(_, _, _)
first_not_equal(a, b, keys) ==
    IF keys = <<>> THEN Equal
    ELSE then_with(key_ordering(EmptyCache, a, b, Head(keys)).ord,
                   first_not_equal(a, b, Tail(keys)))

\* C7: with several sort keys, the ordering of two items is the result of
\* the first key, in declared order, whose comparison is not Equal.
C7_FirstKeyDecides ==
    (args # None /\ args.fn = "bib_ordering" /\ ret # None)
       => unwrap(ret) = first_not_equal(args.a, args.b, args.sort)

\* whether an item lacks the value a sort key compares
value_missing(item, key) ==
    CASE key.sort_source.kind = "Ordinary" -> item.reference[key.sort_source.name] = None
      [] key.sort_source.kind = "Macro" ->
            ctx_sort_string(item.reference, key.sort_source.name) = <<>>
      [] OTHER -> FALSE

\* C8: under any one sort key, ascending or descending, an item missing the
\* key's value is ordered after an item that has it, and two items both
\* missing it compare Equal.
C8_MissingDemoted ==
    (args # None /\ args.fn = "bib_ordering" /\ ret # None /\ Len(args.sort) = 1)
       => LET a_missing == value_missing(args.a, args.sort[1])
              b_missing == value_missing(args.b, args.sort[1])
          IN /\ (a_missing /\ ~b_missing) => unwrap(ret) = Greater
             /\ (~a_missing /\ b_missing) => unwrap(ret) = Less
             /\ (a_missing /\ b_missing) => unwrap(ret) = Equal

\* C9: natural_cmp(a, b) is the reverse of natural_cmp(b, a), and
\* natural_cmp is transitive, for Equal as for Less and Greater.
C9_TotalPreorder ==
    (args # None /\ args.fn = "natural_cmp" /\ ret # None)
       => LET r == unwrap(ret) IN
          /\ r.ab = reverse(r.ba)
          /\ (r.ab = Equal /\ r.bc = Equal) => r.ac = Equal
          /\ (r.ab = Less /\ r.bc = Less) => r.ac = Less
          /\ (r.ab = Greater /\ r.bc = Greater) => r.ac = Greater

\* the number the i-th position of a list is given: InText(k), k its ordinal
\* among the in-text positions, or Note(Multi(n, i)), i the number of
\* earlier positions with the same note number n
position_number(positions, i) ==
    IF positions[i].note = None
    THEN InText(Cardinality({j \in 1..i : positions[j].note = None}))
    ELSE NoteMulti(unwrap(positions[i].note),
                   Cardinality({j \in 1..(i - 1) : positions[j].note = positions[i].note}))

\* C10 as stated: after set_cluster_order(positions) succeeds, cluster_ids
\* is the listed ids in the listed order and the cluster of every position
\* has that position's number.
C10_EveryPositionNumbered ==
    (call.op = "set_cluster_order" /\ call.result = Ok)
       => /\ cluster_ids = [i \in 1..Len(call.positions) |-> call.positions[i].id]
          /\ \A i \in 1..Len(call.positions) :
                cluster_note_number[call.positions[i].id]
                   = Some(position_number(call.positions, i))

\* C10, amended: after set_cluster_order(positions) succeeds, cluster_ids is
\* the listed ids in the listed order, and every cluster listed has the
\* number of the last position that lists it.
C10_LastPositionNumbered ==
    (call.op = "set_cluster_order" /\ call.result = Ok)
       => /\ cluster_ids = [i \in 1..Len(call.positions) |-> call.positions[i].id]
          /\ \A i \in 1..Len(call.positions) :
                (\A j \in (i + 1)..Len(call.positions) :
                     call.positions[j].id # call.positions[i].id)
                   => cluster_note_number[call.positions[i].id]
                         = Some(position_number(call.positions, i))

\* a successful reordering of two clusters into one note: the second has
\* the intra-note index 1
C10_Witness ==
    /\ call.op = "set_cluster_order"
    /\ call.result = Ok
    /\ Len(call.positions) = 2
    /\ call.positions[1].id # call.positions[2].id
    /\ call.positions[1].note # None
    /\ call.positions[1].note = call.positions[2].note
    /\ cluster_note_number[call.positions[2].id]
          = Some(NoteMulti(unwrap(call.positions[1].note), 1))

\* the positions with a note number smaller than the note number of the
\* nearest note position before them
falling_notes(positions) ==
    {i \in 1..Len(positions) :
        /\ positions[i].note # None
        /\ \E j \in 1..(i - 1) :
              /\ positions[j].note # None
              /\ \A k \in (j + 1)..(i - 1) : positions[k].note = None
              /\ unwrap(positions[i].note) < unwrap(positions[j].note)}

\* C11: set_cluster_order fails with NonMonotonicNoteNumber(n) exactly when
\* some position's note number is smaller than that of the nearest note
\* position before it (in-text positions in between ignored), n being the
\* first such number; equal note numbers in a row are accepted and in every
\* other case the call succeeds.
C11_NonMonotonicExactly ==
    call.op = "set_cluster_order"
       => LET falling == falling_notes(call.positions) IN
          call.result =
             IF falling = {} THEN Ok
             ELSE NonMonotonicNoteNumber(
                     unwrap(call.positions[CHOOSE i \in falling :
                                              \A j \in falling : i <= j].note))

\* a list refused for a note 1 behind a note 2 with an in-text position
\* between them
C11_Witness ==
    /\ call.op = "set_cluster_order"
    /\ Len(call.positions) = 3
    /\ call.positions[1].note = Some(2)
    /\ call.positions[2].note = None
    /\ call.positions[3].note = Some(1)
    /\ call.result = NonMonotonicNoteNumber(1)

\* the first two positions of the list cite_positions was asked under hold
\* one cite each, of the same reference
same_reference_twice ==
    /\ call.op = "cite_positions"
    /\ Len(call.positions) >= 2
    /\ Len(cluster_cites[call.positions[1].id]) = 1
    /\ cluster_cites[call.positions[1].id] = cluster_cites[call.positions[2].id]

\* C12: for two clusters adjacent in document order, each holding one cite
\* of the same reference, the first cite is First with no
\* first-reference-note-number; if the clusters are the notes 1 and 2 the
\* second cite is IbidNear with first-reference-note-number 1; if both are
\* in the text the second cite is Ibid with no first-reference-note-number.
C12_IbidAfterFirst ==
    same_reference_twice
       => LET one == call.positions[1]
              two == call.positions[2]
          IN /\ (one.note = Some(1) /\ two.note = Some(2))
                   => /\ call.result[one.id] = <<<<First, None>>>>
                      /\ call.result[two.id] = <<<<IbidNear, Some(1)>>>>
             /\ (one.note = None /\ two.note = None)
                   => /\ call.result[one.id] = <<<<First, None>>>>
                      /\ call.result[two.id] = <<<<Ibid, None>>>>

\* the notes 1 and 2 cite the same reference, and the second is IbidNear
C12_Witness ==
    /\ same_reference_twice
    /\ call.positions[1].note = Some(1)
    /\ call.positions[2].note = Some(2)
    /\ call.result[call.positions[2].id] = <<<<IbidNear, Some(1)>>>>

\* C13: when two consecutive clusters cite the same reference and one is in
\* the text while the other is a note, in either order, both cites are
\* First with no first-reference-note-number.
C13_NoIbidAcrossBoundary ==
    (same_reference_twice
        /\ (call.positions[1].note = None) # (call.positions[2].note = None))
       => /\ call.result[call.positions[1].id] = <<<<First, None>>>>
          /\ call.result[call.positions[2].id] = <<<<First, None>>>>

\* a note followed by an in-text cluster citing the same reference
C13_Witness ==
    /\ same_reference_twice
    /\ call.positions[1].note = Some(1)
    /\ call.positions[2].note = None
    /\ call.result[call.positions[2].id] = <<<<First, None>>>>

\* every position of the list is a note holding one cite
notes_of_one_cite ==
    /\ call.op = "cite_positions"
    /\ \A i \in 1..Len(call.positions) :
          /\ call.positions[i].note # None
          /\ Len(cluster_cites[call.positions[i].id]) = 1

\* the positions before the i-th whose cite is of the same reference
earlier_cites(i) ==
    {j \in 1..(i - 1) :
        cluster_cites[call.positions[j].id] = cluster_cites[call.positions[i].id]}

\* C14: a note cite of a reference that appeared in an earlier note within
\* near-note-distance (5, the style setting none), but not in the cite
\* immediately before, is NearNote
\* with the note number of the reference's first appearance as its
\* first-reference-note-number.
C14_NearNote ==
    notes_of_one_cite
       => \A i \in 1..Len(call.positions) :
             (/\ earlier_cites(i) # {}
              /\ (i - 1) \notin earlier_cites(i)
              /\ \E j \in earlier_cites(i) :
                    unwrap(call.positions[i].note) - unwrap(call.positions[j].note) <= 5)
                => call.result[call.positions[i].id] =
                      <<<<NearNote,
                          call.positions[CHOOSE j \in earlier_cites(i) :
                                            \A k \in earlier_cites(i) : j <= k].note>>>>

\* the notes 1, 2 and 3 cite one, two and one: the third cite is NearNote
\* with first-reference-note-number 1
C14_Witness ==
    /\ notes_of_one_cite
    /\ Len(call.positions) = 3
    /\ [i \in 1..3 |-> call.positions[i].note] = <<Some(1), Some(2), Some(3)>>
    /\ [i \in 1..3 |-> cluster_cites[call.positions[i].id]] = <<<<"one">>, <<"two">>, <<"one">>>>
    /\ call.result[call.positions[3].id] = <<<<NearNote, Some(1)>>>>

\* the last element a piece covers
piece_end(piece) == IF piece.kind = "Range" THEN piece.b ELSE piece.a

\* the pieces cover the list in order, each element once: every piece
\* starts right after the piece before it ends, at elements of the list
covers_in_order(nums, pieces) ==
    /\ (pieces = <<>>) = (nums = <<>>)
    /\ pieces # <<>> =>
          /\ pieces[1].a.ix = 0
          /\ piece_end(pieces[Len(pieces)]).ix = Len(nums) - 1
    /\ \A k \in 1..Len(pieces) :
          /\ pieces[k].a.ix <= piece_end(pieces[k]).ix
          /\ pieces[k].a.ix + 1 \in 1..Len(nums)
          /\ piece_end(pieces[k]).ix + 1 \in 1..Len(nums)
          /\ pieces[k].a = nums[pieces[k].a.ix + 1]
          /\ piece_end(pieces[k]) = nums[piece_end(pieces[k]).ix + 1]
          /\ pieces[k].kind = "Range" => pieces[k].a.ix < pieces[k].b.ix
          /\ k < Len(pieces) => pieces[k + 1].a.ix = piece_end(pieces[k]).ix + 1

\* C15 as stated: collapse_ranges splits its input, in order and covering
\* every element once, into pieces where each Range is a maximal run of
\* adjacent elements whose numbers increase by exactly 1 and every other
\* element is a Single.
C15_MaximalRuns ==
    (args # None /\ args.fn = "collapse_ranges" /\ ret # None)
       => LET nums == args.nums
              pieces == unwrap(ret)
          IN /\ covers_in_order(nums, pieces)
             /\ \A k \in 1..Len(pieces) :
                   /\ \A i \in (pieces[k].a.ix + 1)..piece_end(pieces[k]).ix :
                         nums[i + 1].cnum = nums[i].cnum + 1
                   /\ k < Len(pieces) =>
                         nums[piece_end(pieces[k]).ix + 2].cnum
                            # piece_end(pieces[k]).cnum + 1

\* C15, amended: the same with runs that a force_single element ends: a
\* run goes on with the next element when its number is 1 more and it is
\* not force_single.
C15_RunsBrokenByForceSingle ==
    (args # None /\ args.fn = "collapse_ranges" /\ ret # None)
       => LET nums == args.nums
              pieces == unwrap(ret)
          IN /\ covers_in_order(nums, pieces)
             /\ \A k \in 1..Len(pieces) :
                   /\ \A i \in (pieces[k].a.ix + 1)..piece_end(pieces[k]).ix :
                         nums[i + 1].cnum = nums[i].cnum + 1 /\ ~nums[i + 1].force_single
                   /\ k < Len(pieces) =>
                         \/ nums[piece_end(pieces[k]).ix + 2].cnum
                               # piece_end(pieces[k]).cnum + 1
                         \/ nums[piece_end(pieces[k]).ix + 2].force_single

\* the numbers 1, 2, 3, 5, none force_single, gave Range(1..3) and Single(5)
C15_Witness ==
    /\ args # None /\ args.fn = "collapse_ranges" /\ ret # None
    /\ args.nums = <<CnumIx_new(1, 0), CnumIx_new(2, 1), CnumIx_new(3, 2), CnumIx_new(5, 3)>>
    /\ unwrap(ret) = <<RangePiece_Range(CnumIx_new(1, 0), CnumIx_new(3, 2)),
                       RangePiece_Single(CnumIx_new(5, 3))>>

\* C16: in citation-number range collapsing, a cite that carries a locator
\* (and has a number) always ends up as a Single piece, never the start, the
\* inside or the end of a Range, be it the first cite of the group or a
\* following one.
C16_LocatorStandsAlone ==
    (args # None /\ args.fn = "group_and_collapse" /\ ret # None)
       => \A i \in 1..Len(args.cites) :
             (args.cites[i].has_locator /\ is_some(args.cites[i].num))
                => /\ \E k \in 1..Len(unwrap(ret)) :
                         /\ unwrap(ret)[k].kind = "Single"
                         /\ unwrap(ret)[k].a.ix = i - 1
                   /\ \A k \in 1..Len(unwrap(ret)) :
                         unwrap(ret)[k].kind = "Range"
                            => ~(unwrap(ret)[k].a.ix <= i - 1 /\ i - 1 <= unwrap(ret)[k].b.ix)

\* the ids of a list of clusters or of positions, in order
ids_of(s) == [i \in 1..Len(s) |-> s[i].id]

\* C17: the clusters of clusters_cites_sorted, and so the diff list of
\* compute(), are in document order, the order of the positions last passed
\* to set_cluster_order (each cluster listed once), also when in-text and
\* note positions alternate, and hold only clusters that have a position.
C17_DocumentOrder ==
    (/\ call.op = "set_cluster_order" /\ call.result = Ok
     /\ \A i, j \in 1..Len(call.positions) :
           call.positions[i].id = call.positions[j].id => i = j)
       => /\ ids_of(clusters_cites_sorted(TheDb)) = ids_of(call.positions)
          /\ LET result == compute(TheDb, [id \in ClusterIds |-> None]).result
             IN [i \in 1..Len(result) |-> result[i][1]] = ids_of(call.positions)
          /\ \A i \in 1..Len(clusters_cites_sorted(TheDb)) :
                is_some(cluster_note_number[clusters_cites_sorted(TheDb)[i].id])

-----------------------------------------------------------------------------
(* compute() with the rayon feature: one task per cluster, each building    *)
(* its cluster from a snapshot and then updating the shared last_clusters   *)
(* under its mutex. args holds the running job, None when there is none.    *)

\* a task before snap.0.built_cluster, after it, and after upsert_diff
TaskStart == [at |-> "start"]
TaskBuilt(built) == [at |-> "built", built |-> built]
TaskDone(diff) == [at |-> "done", diff |-> diff]

\* clusters.par_iter().map_with(self.snap(), ..): the snapshot, the map as it
\* stood and one task per cluster; order lists the tasks as they took the lock
par_iter(D, into_hashmap, clusters) ==
    [fn |-> "compute", snap |-> D, before |-> into_hashmap, clusters |-> clusters,
     tasks |-> [i \in 1..Len(clusters) |-> TaskStart], order |-> <<>>]

\* a collect() that takes the results as the tasks finished
RECURSIVE par_collect_as_finished(_, _)
par_collect_as_finished(job, i) ==
    IF i > Len(job.order) THEN <<>>
    ELSE job.tasks[job.order[i]].diff \o par_collect_as_finished(job, i + 1)

\* .filter_map(|x| x).collect(): the diffs that are Some, in the order of the
\* clusters whichever task finished first
RECURSIVE par_collect(_, _)
par_collect(job, i) ==
    IF i > Len(job.tasks) THEN <<>>
    ELSE job.tasks[i].diff \o par_collect(job, i + 1)

\* compute() is entered: the clusters are read and the tasks are handed out
ParIter ==
    /\ args = None
    /\ args' = par_iter(TheDb, last_clusters, clusters_cites_sorted(TheDb))
    /\ UNCHANGED <<db, last_clusters, last_bibliography, call, ret>>

\* let built = snap.0.built_cluster(cluster.id)
ParBuiltCluster(i) ==
    /\ args # None
    /\ i \in 1..Len(args.tasks)
    /\ args.tasks[i] = TaskStart
    /\ args' = [args EXCEPT
                  !.tasks[i] = TaskBuilt(built_cluster(args.snap, args.clusters[i].id))]
    /\ UNCHANGED <<db, last_clusters, last_bibliography, call, ret>>

\* let mut into_hashmap = snap.0.last_clusters.lock(); upsert_diff(..)
ParUpsertDiff(i) ==
    /\ args # None
    /\ i \in 1..Len(args.tasks)
    /\ args.tasks[i].at = "built"
    /\ \E u \in {upsert_diff(last_clusters, args.clusters[i].id, args.tasks[i].built)} :
          /\ last_clusters' = u.into_h
          /\ args' = [args EXCEPT !.tasks[i] = TaskDone(u.diff),
                                  !.order = Append(@, i)]
    /\ UNCHANGED <<db, last_bibliography, call, ret>>

\* every task is done: the results are collected and compute() returns
ParCollect ==
    /\ args # None
    /\ \A i \in 1..Len(args.tasks) : args.tasks[i].at = "done"
    /\ call' = [op |-> "compute", result |-> par_collect(args, 1), snap |-> args.snap,
                before |-> args.before, order |-> args.order]
    /\ args' = None
    /\ UNCHANGED <<db, last_clusters, last_bibliography, ret>>

\* the clusters c1 and c2 citing nothing or "one", ordered at will and
\* computed in parallel; the inputs stand still while a job runs
NextParallel ==
    \/ args = None /\ \E id \in ComputeIds, cites \in CiteLists(ComputeRefs) :
          InsertCites(id, cites)
    \/ args = None /\ \E positions \in Positions(ComputeIds, {None}) :
          SetClusterOrder(positions)
    \/ ParIter
    \/ \E i \in 1..MaxPositions : ParBuiltCluster(i)
    \/ \E i \in 1..MaxPositions : ParUpsertDiff(i)
    \/ ParCollect

SpecParallel == Init /\ [][NextParallel]_vars

\* The calls of several callers at once. A call is entered, its tasks take
\* the lock of last_clusters one by one among the tasks of the other calls,
\* and then compute() returns, or batched_updates() goes on to the lock of
\* last_bibliography.

\* compute() is entered by caller c, from the API or from batched_updates
\* (op): the clusters are read and the tasks are handed out
ParIterBy(c, op) ==
    /\ ~under_way(c)
    /\ args' = with_job(c, Some([par_iter(TheDb, last_clusters, clusters_cites_sorted(TheDb))
                                    EXCEPT !.fn = op]))
    /\ UNCHANGED <<db, last_clusters, last_bibliography, call, ret>>

\* task i of the job of caller c: let built = snap.0.built_cluster(cluster.id);
\* let mut into_hashmap = snap.0.last_clusters.lock(); upsert_diff(..)
\* The lock is taken for this one cluster and given back.
ParUpsertDiffBy(c, i) ==
    /\ under_way(c)
    /\ i \in 1..Len(job_of(c).tasks)
    /\ job_of(c).tasks[i] = TaskStart
    /\ \E u \in {upsert_diff(last_clusters, job_of(c).clusters[i].id,
                              built_cluster(job_of(c).snap, job_of(c).clusters[i].id))} :
          /\ last_clusters' = u.into_h
          /\ args' = with_job(c, Some([job_of(c) EXCEPT !.tasks[i] = TaskDone(u.diff)]))
    /\ UNCHANGED <<db, last_bibliography, call, ret>>

\* every task of the job is done
all_done(j) == \A i \in 1..Len(j.tasks) : j.tasks[i].at = "done"

\* the results are collected and compute() returns to the API
ParCollectBy(c) ==
    /\ under_way(c)
    /\ job_of(c).fn = "compute"
    /\ all_done(job_of(c))
    /\ call' = [op |-> "compute", result |-> par_collect(job_of(c), 1)]
    /\ args' = with_job(c, None)
    /\ UNCHANGED <<db, last_clusters, last_bibliography, ret>>

\* compute() returns delta to batched_updates, which gives
\* UpdateSummary { clusters: delta, bibliography: self.save_and_diff_bibliography() }
BatchedUpdatesBibliography(c) ==
    \E b \in {save_and_diff_bibliography(TheDb, last_bibliography)} :
    /\ under_way(c)
    /\ job_of(c).fn = "batched_updates"
    /\ all_done(job_of(c))
    /\ last_bibliography' = b.last_bibliography
    /\ call' = [op |-> "batched_updates", result |-> par_collect(job_of(c), 1),
                bibliography |-> b.update]
    /\ args' = with_job(c, None)
    /\ UNCHANGED <<db, last_clusters, ret>>

\* a document of in-text clusters, edited, computed and recomputed by its
\* owner; the setters take &mut self, so none runs while a call is under way
NextCompute ==
    \/ args = None /\ \E id \in ComputeIds, cites \in CiteLists(ComputeRefs) :
          InsertCites(id, cites)
    \/ args = None /\ \E id \in ComputeIds : RemoveCluster(id)
    \/ args = None /\ \E positions \in Positions(ComputeIds, {None}) :
          SetClusterOrder(positions)
    \/ \E op \in {"compute", "batched_updates"} : ParIterBy("processor", op)
    \/ \E i \in 1..MaxPositions : ParUpsertDiffBy("processor", i)
    \/ ParCollectBy("processor")
    \/ BatchedUpdatesBibliography("processor")

SpecCompute == Init /\ [][NextCompute]_vars

\* the clusters c1 and c2, both citing "one", initialised and ordered once
\* as a host does on loading, then computed by the processor and a snapshot
\* of it at once; no setter runs while the snapshot lives
NextCallers ==
    \/ call.op = "new"
          /\ InitClusters(<<Cluster("c1", <<"one">>), Cluster("c2", <<"one">>)>>)
    \/ call.op = "init_clusters" /\ \E positions \in Positions(ComputeIds, {None}) :
          SetClusterOrder(positions)
    \/ call.op \notin {"new", "init_clusters"}
          /\ \E c \in Callers, op \in {"compute", "batched_updates"} : ParIterBy(c, op)
    \/ \E c \in Callers, i \in 1..MaxPositions : ParUpsertDiffBy(c, i)
    \/ \E c \in Callers : ParCollectBy(c)
    \/ \E c \in Callers : BatchedUpdatesBibliography(c)

SpecCallers == Init /\ [][NextCallers]_vars

\* C18: a parallel compute() returns the diff, and leaves the last-emitted
\* map, that the sequential loop gives on the same snapshot and the same map
\* before, whichever order the tasks took the lock in.
C18_ParallelAsSequential ==
    (call.op = "compute" /\ "order" \in DOMAIN call)
       => /\ call.result = compute(call.snap, call.before).result
          /\ (args = None
                => last_clusters = compute(call.snap, call.before).last_clusters)

\* two clusters both reported, the second having taken the lock first
C18_Witness ==
    /\ call.op = "compute" /\ "order" \in DOMAIN call
    /\ call.order = <<2, 1>>
    /\ Len(call.result) = 2
    /\ args = None

-----------------------------------------------------------------------------
(* get_cluster *)

\* Processor::get_cluster
get_cluster(D, id) ==
    IF is_some(D.notes[id]) THEN Some(built_cluster(D, id)) ELSE None

\* get_cluster(id) called right after the step
get_cluster_next(id) ==
    get_cluster(Db(cluster_ids', cluster_note_number', cluster_cites'), id)

\* C19: get_cluster(id) is None exactly when the cluster has no note number;
\* it is None for every cluster init_clusters has just loaded, for a cluster
\* insert_cites has just created, for id after remove_cluster(id), which also
\* takes id out of cluster_ids and empties its cites, and for the preview id
\* after any preview.
C19_NoneWithoutPosition ==
    [][/\ \A id \in ClusterIds :
            (get_cluster_next(id) = None) <=> (cluster_note_number'[id] = None)
       /\ call'.op = "init_clusters"
            => \A i \in 1..Len(cluster_ids') : get_cluster_next(cluster_ids'[i]) = None
       /\ \A id \in ClusterIds :
            (call'.op = "insert_cites" /\ ~contains(cluster_ids, id)
                /\ contains(cluster_ids', id))
               => get_cluster_next(id) = None
       /\ \A id \in ClusterIds :
            RemoveCluster(id)
               => /\ get_cluster_next(id) = None
                  /\ ~contains(cluster_ids', id)
                  /\ cluster_cites'[id] = <<>>
       /\ call'.op = "preview_citation_cluster"
            => get_cluster_next(PREVIEW_CLUSTER_ID) = None
      ]_vars

-----------------------------------------------------------------------------
(* The order of sorted_refs *)

\* the references of SortLibrary among the cites, each at its first citation
RECURSIVE cited_in_order(_, _)
cited_in_order(cite_ids, k) ==
    IF k > Len(cite_ids) THEN <<>>
    ELSE (IF /\ cite_ids[k] \in DOMAIN SortLibrary
             /\ \A m \in 1..(k - 1) : cite_ids[m] # cite_ids[k]
          THEN <<cite_ids[k]>> ELSE <<>>)
         \o cited_in_order(cite_ids, k + 1)

\* the order before any <sort>: the cited references, then the uncited list
pre_sort_order(a) == cited_in_order(a.all_cite_ids, 1) \o a.uncited_ordered

\* the citation numbers the closure of sort_by sees
pre_sort_numbers(a) ==
    push_uncited(push_cited([preordered |-> <<>>, citation_numbers |-> EmptyMap, i |-> 1],
                            DOMAIN SortLibrary, a.all_cite_ids),
                 a.uncited_ordered).citation_numbers

\* the elements of s that are x or y, in the order of s
only(s, x, y) == SelectSeq(s, LAMBDA e : e = x \/ e = y)

occurrences(s, x) == Cardinality({i \in 1..Len(s) : s[i] = x})

\* two different references the <sort> compares Equal
compare_equal(a, x, y) ==
    /\ x # y
    /\ sort_closure(SortLibrary, pre_sort_numbers(a), unwrap(a.bib), EmptyCache, x, y).ord
          = Equal

\* refs holds what pre holds, and every two references that compare Equal
\* stand in refs as they stand in pre
stable_order(a, pre, refs) ==
    /\ \A x \in SortRefs : occurrences(refs, x) = occurrences(pre, x)
    /\ \A x, y \in SortRefs :
          (occurrences(pre, x) > 0 /\ occurrences(pre, y) > 0 /\ compare_equal(a, x, y))
             => only(refs, x, y) = only(pre, x, y)

\* C20: sorted_refs lists the cited references that exist, in the order of
\* their first citation, then the uncited list in its order; without a
\* <sort> that is the result, and with a <sort> the result holds the same
\* references and keeps that order between references that compare Equal.
C20_PreSortOrder ==
    (args # None /\ args.fn = "sorted_refs" /\ ret # None)
       => IF args.bib = None
          THEN unwrap(ret)[1] = pre_sort_order(args)
          ELSE stable_order(args, pre_sort_order(args), unwrap(ret)[1])

\* a <sort> by genre, which no reference has: "two" and "one" are cited in
\* this order around a cite of an unknown reference, "three" is listed
\* uncited, and the sorted list is two, one, three
C20_Witness ==
    /\ args # None /\ args.fn = "sorted_refs" /\ ret # None
    /\ args.bib = Some(<<SortKey(Ordinary("genre"), None)>>)
    /\ args.all_cite_ids = <<"two", "unknown", "one">>
    /\ args.uncited_ordered = <<"three">>
    /\ unwrap(ret)[1] = <<"two", "one", "three">>

-----------------------------------------------------------------------------
(* natural_cmp on sort strings as the sort writes them: a text, then a     *)
(* marked number or a marked date.  A date is written year_rest/year_rest; *)
(* for a date that is no range the part behind the slash is the year 0000  *)
(* with a zero for every month and day digit before the slash              *)
(* (sort.rs 536-566, 1024-1038).  The strings of sort.rs 996-1022 carry a  *)
(* date without a slash.                                                   *)

\* the years 100BC, 44BC and 100AD as written and as meant
SortYears ==
    {[text |-> <<"-", "1", "0", "0">>, value |-> 0 - 100],
     [text |-> <<"-", "0", "4", "4">>, value |-> 0 - 44],
     [text |-> <<"0", "1", "0", "0">>, value |-> 100]}
\* no month, a month, a month and a day
SortRests == {<<>>, <<"0", "4">>, <<"0", "4", "0", "1">>}

\* a zero for every digit of rest
zeros(rest) == [i \in 1..Len(rest) |-> "0"]

\* what stands behind the start of a date: nothing, the end of a date that
\* is no range, or the end of a range (in 50BC or 200AD, with the month
\* and day of the start)
NoEnd == [slash |-> FALSE, empty |-> TRUE]
EmptyEnd(rest) ==
    [slash |-> TRUE, empty |-> TRUE, year |-> <<"0", "0", "0", "0">>, rest |-> zeros(rest)]
RangeEnd(y, rest) == [slash |-> TRUE, empty |-> FALSE, year |-> y, rest |-> rest]
SortEnds(rest) ==
    {NoEnd, EmptyEnd(rest),
     RangeEnd(<<"-", "0", "0", "5", "0">>, rest), RangeEnd(<<"0", "2", "0", "0">>, rest)}
SortNumbers ==
    {[kind |-> "num", text |-> <<"9">>, value |-> 9],
     [kind |-> "num", text |-> <<"1", "0">>, value |-> 10]}
SortDates ==
    UNION {[kind : {"date"}, year : SortYears, rest : {rest}, end : SortEnds(rest)] :
              rest \in SortRests}
SortTexts == {<<"a">>, <<"A">>, <<"b">>}
SortStrings == [text : SortTexts, item : SortNumbers \cup SortDates]

\* the part of a date's sort string behind its start
sort_string_end(end) ==
    IF end.slash THEN <<"/">> \o end.year \o <<"_">> \o end.rest ELSE <<>>

\* the sort string of a text followed by a number or a date
sort_string(s) ==
    s.text \o
    (IF s.item.kind = "num" THEN <<NUM_START>> \o s.item.text \o <<NUM_END>>
     ELSE <<DATE_START>> \o s.item.year.text \o <<"_">> \o s.item.rest
             \o sort_string_end(s.item.end) \o <<DATE_END>>)

InitNatStrings ==
    /\ InitProcessor
    /\ ret = None
    /\ args \in [fn : {"natural_cmp_strings"}, a : SortStrings, b : SortStrings]

NaturalCmpStrings ==
    /\ args.fn = "natural_cmp_strings"
    /\ ret = None
    /\ ret' = Some(natural_cmp(sort_string(args.a), sort_string(args.b)))
    /\ UNCHANGED Pure

SpecNatStrings == InitNatStrings /\ [][NaturalCmpStrings]_vars

\* a and b written the same but for the case of their letters
same_text(a, b) == a.text = b.text \/ {a.text, b.text} = {<<"a">>, <<"A">>}

\* x is a proper prefix of y
proper_prefix(x, y) == Len(x) < Len(y) /\ SubSeq(y, 1, Len(x)) = x

\* C21: natural_cmp answers with the first token comparison that is not
\* Equal: texts compare without regard to case, marked numbers by their value,
\* marked dates by the signed year, then the date with fewer month and day
\* digits first, then the date with an empty range end before the range.
C21_NaturalOrder ==
    (args # None /\ args.fn = "natural_cmp_strings" /\ ret # None)
       => LET a == args.a
              b == args.b
              o == unwrap(ret)
          IN /\ (a.text = <<"b">> /\ b.text # <<"b">>) => o = Greater
             /\ (a.text # <<"b">> /\ b.text = <<"b">>) => o = Less
             /\ (same_text(a, b) /\ a.item.kind = "num" /\ b.item.kind = "num")
                   => o = int_cmp(a.item.value, b.item.value)
             /\ (same_text(a, b) /\ a.item.kind = "date" /\ b.item.kind = "date")
                   => /\ a.item.year.value < b.item.year.value => o = Less
                      /\ (a.item.year = b.item.year
                             /\ proper_prefix(a.item.rest, b.item.rest)) => o = Less
                      /\ (a.item.year = b.item.year /\ a.item.rest = b.item.rest
                             /\ a.item.end.slash /\ a.item.end.empty
                             /\ ~b.item.end.empty) => o = Less

-----------------------------------------------------------------------------
(* The Pandoc formatter: flip-flop of nested formatting in output()        *)

\* pandoc_types::definition::Inline, each node with its list of inlines
Str(s) == [kind |-> "Str", text |-> s]
Emph(ils) == [kind |-> "Emph", ils |-> ils]
Strong(ils) == [kind |-> "Strong", ils |-> ils]
SmallCaps(ils) == [kind |-> "SmallCaps", ils |-> ils]
Strikeout(ils) == [kind |-> "Strikeout", ils |-> ils]
Superscript(ils) == [kind |-> "Superscript", ils |-> ils]
Subscript(ils) == [kind |-> "Subscript", ils |-> ils]
Quoted(q, ils) == [kind |-> "Quoted", q |-> q, ils |-> ils]
Span(attr, ils) == [kind |-> "Span", attr |-> attr, ils |-> ils]
Link(ils) == [kind |-> "Link", ils |-> ils]
\* Note(vec![Block::Para(ils)])
NotePara(ils) == [kind |-> "Note", ils |-> ils]

SingleQuote == "SingleQuote"
DoubleQuote == "DoubleQuote"

\* attr_class: Attr("", vec![class], vec![])
attr_class(class) == <<"", <<class>>, <<>>>>

\* FlipFlopState::default()
FlipFlopState_default ==
    [in_emph |-> FALSE, in_strong |-> FALSE, in_small_caps |-> FALSE,
     in_outer_quotes |-> FALSE]

\* flop.in_emph = !flop.in_emph, and the like
flop_emph(state) == [state EXCEPT !.in_emph = ~@]
flop_strong(state) == [state EXCEPT !.in_strong = ~@]
flop_small_caps(state) == [state EXCEPT !.in_small_caps = ~@]
flop_quotes(state) == [state EXCEPT !.in_outer_quotes = ~@]

\* a Quoted arm that swaps the node's own quote type
flip_quoted_own(q, state, subs) ==
    Quoted(IF q = DoubleQuote THEN SingleQuote ELSE DoubleQuote, subs)

\* the Quoted arm of flip_flop, which ignores the node's quote type `_q`
flip_quoted(q, state, subs) ==
    IF state.in_outer_quotes THEN Quoted(SingleQuote, subs) ELSE Quoted(DoubleQuote, subs)

\* .unwrap_or_else(|| inl.clone())
unwrap_or_clone(r, inl) == IF is_some(r) THEN unwrap(r) ELSE inl

RECURSIVE flip_flop_inlines(_, _)
\* flip_flop: Some(node) for the kinds it rebuilds, None for every other kind
flip_flop(inline, state) ==
    CASE inline.kind = "Note" ->
            Some(NotePara(flip_flop_inlines(inline.ils, state)))
      [] inline.kind = "Emph" ->
            IF state.in_emph
            THEN Some(Span(attr_class("csl-no-emph"),
                           flip_flop_inlines(inline.ils, flop_emph(state))))
            ELSE Some(Emph(flip_flop_inlines(inline.ils, flop_emph(state))))
      [] inline.kind = "Strong" ->
            IF state.in_strong
            THEN Some(Span(attr_class("csl-no-strong"),
                           flip_flop_inlines(inline.ils, flop_strong(state))))
            ELSE Some(Strong(flip_flop_inlines(inline.ils, flop_strong(state))))
      [] inline.kind = "SmallCaps" ->
            IF state.in_small_caps
            THEN Some(Span(attr_class("csl-no-smallcaps"),
                           flip_flop_inlines(inline.ils, flop_small_caps(state))))
            ELSE Some(SmallCaps(flip_flop_inlines(inline.ils, flop_small_caps(state))))
      [] inline.kind = "Quoted" ->
            Some(flip_quoted(inline.q, state,
                             flip_flop_inlines(inline.ils, flop_quotes(state))))
      [] inline.kind = "Strikeout" ->
            Some(Strikeout(flip_flop_inlines(inline.ils, state)))
      [] inline.kind = "Superscript" ->
            Some(Superscript(flip_flop_inlines(inline.ils, state)))
      [] inline.kind = "Subscript" ->
            Some(Subscript(flip_flop_inlines(inline.ils, state)))
      [] inline.kind = "Link" ->
            Some(Link(flip_flop_inlines(inline.ils, state)))
      [] OTHER -> None

\* flip_flop_inlines
flip_flop_inlines(inlines, state) ==
    [i \in 1..Len(inlines) |-> unwrap_or_clone(flip_flop(inlines[i], state), inlines[i])]

\* Pandoc::output
output(inter) == flip_flop_inlines(inter, FlipFlopState_default)

\* deepest nesting of the inline trees handed to output()
MaxDepth == 3

\* the node kinds a formatted citation holds: a node wraps one inline or none
RECURSIVE Inlines(_)
Inlines(d) ==
    IF d = 0 THEN {}
    ELSE {Str("x")} \cup
         UNION {{Emph(ils), Strong(ils), SmallCaps(ils), Strikeout(ils), Superscript(ils),
                 Subscript(ils), Link(ils),
                 NotePara(ils), Quoted(SingleQuote, ils), Quoted(DoubleQuote, ils),
                 Span(attr_class("underline"), ils)} :
                   ils \in {<<>>} \cup {<<t>> : t \in Inlines(d - 1)}}

InitOutput ==
    /\ InitProcessor
    /\ ret = None
    /\ args \in [fn : {"output"}, inter : {<<t>> : t \in Inlines(MaxDepth)}]

\* f.output(group), and output() of what it gave
Output ==
    /\ args.fn = "output"
    /\ ret = None
    /\ ret' = Some([out |-> output(args.inter), again |-> output(output(args.inter))])
    /\ UNCHANGED Pure

SpecOutput == InitOutput /\ [][Output]_vars

\* the nodes of a tree from the root down: every node here has one child at most
RECURSIVE nodes_down(_)
nodes_down(ils) ==
    IF ils = <<>> THEN <<>>
    ELSE <<Head(ils)>> \o (IF Head(ils).kind = "Str" THEN <<>>
                           ELSE nodes_down(Head(ils).ils))

\* the number of nodes of the kind enclosing the i-th node
enclosing(nodes, i, kind) == Cardinality({j \in 1..(i - 1) : nodes[j].kind = kind})

\* what the i-th input node is to be written as, n of its kind enclosing it
flipped(node, n, plain, class) ==
    IF n % 2 = 1 THEN node.kind = "Span" /\ node.attr = attr_class(class)
    ELSE node.kind = plain

\* C22: in the output an Emph, Strong or SmallCaps node is a csl-no-emph,
\* csl-no-strong or csl-no-smallcaps span exactly when an odd number of nodes
\* of its kind enclose it, and a Quoted node is single-quoted exactly when an
\* odd number of Quoted nodes enclose it, whichever nodes lie in between.
C22_FlipFlopByNesting ==
    (args # None /\ args.fn = "output" /\ ret # None)
       => LET inp == nodes_down(args.inter)
              out == nodes_down(unwrap(ret).out)
          IN /\ Len(out) = Len(inp)
             /\ \A i \in 1..Len(inp) :
                  /\ inp[i].kind = "Emph"
                       => flipped(out[i], enclosing(inp, i, "Emph"), "Emph", "csl-no-emph")
                  /\ inp[i].kind = "Strong"
                       => flipped(out[i], enclosing(inp, i, "Strong"), "Strong",
                                  "csl-no-strong")
                  /\ inp[i].kind = "SmallCaps"
                       => flipped(out[i], enclosing(inp, i, "SmallCaps"), "SmallCaps",
                                  "csl-no-smallcaps")
                  /\ inp[i].kind = "Quoted"
                       => /\ out[i].kind = "Quoted"
                          /\ out[i].q = IF enclosing(inp, i, "Quoted") % 2 = 1
                                        THEN SingleQuote ELSE DoubleQuote

\* C23: output() applied to its own result gives that result again.
C23_OutputIdempotent ==
    (args # None /\ args.fn = "output" /\ ret # None)
       => unwrap(ret).again = unwrap(ret).out

\* an Emph in an Emph around a single-quoted text: the inner Emph is
\* written as a span and the quotes become double quotes
C23_Witness ==
    /\ args # None /\ args.fn = "output" /\ ret # None
    /\ args.inter = <<Emph(<<Emph(<<Quoted(SingleQuote, <<>>)>>)>>)>>
    /\ unwrap(ret).out =
          <<Emph(<<Span(attr_class("csl-no-emph"), <<Quoted(DoubleQuote, <<>>)>>)>>)>>
    /\ unwrap(ret).again = unwrap(ret).out

-----------------------------------------------------------------------------
(* Smart quotes: stamp and QuotedStack of parse_quotes.rs                  *)

\* MicroNode::Text, MicroNode::Formatted(children, cmd), MicroNode::Quoted
MicroNode_Text(txt) == [kind |-> "Text", text |-> txt]
MicroNode_Formatted(children, cmd) ==
    [kind |-> "Formatted", children |-> children, cmd |-> cmd]
MicroNode_Quoted(children) == [kind |-> "Quoted", is_inner |-> FALSE, children |-> children]
MicroNode_NoCase(children) == [kind |-> "NoCase", children |-> children]
MicroNode_NoDecor(children) == [kind |-> "NoDecor", children |-> children]

\* the nodes matched by Quoted | NoDecor | NoCase | Formatted
has_children(node) == node.kind \in {"Quoted", "NoDecor", "NoCase", "Formatted"}

SFQuoteKind_Single == "Single"
SFQuoteKind_Double == "Double"

\* the character U+2019 that a midword inverted comma is written as
SINGLE_CLOSE == "SINGLE_CLOSE"
SINGLE_OPEN == "SINGLE_OPEN"
DOUBLE_OPEN == "DOUBLE_OPEN"
DOUBLE_CLOSE == "DOUBLE_CLOSE"

\* SFQuoteKind::unmatched_str
unmatched_str(kind) == IF kind = SFQuoteKind_Single THEN <<"'">> ELSE <<"\"">>

\* Intermediate::Event(ev) and Intermediate::Index(ix)
EventText(txt) == [inter |-> "Event", ev |-> "Text", text |-> txt]
Event(ev) == [inter |-> "Event", ev |-> ev]
Index(ix) == [inter |-> "Index", ix |-> ix]

\* QuotedStack { dest, stack }, an entry of stack being <<kind, nodes>>
QuotedStack(dest, stack) == [dest |-> dest, stack |-> stack]

\* QuotedStack::mut_ref: the vector of the innermost open quote, or dest
mut_ref(self) ==
    IF self.stack # <<>> THEN self.stack[Len(self.stack)][2] ELSE self.dest

\* the QuotedStack after v is written through mut_ref
mut_ref_set(self, v) ==
    IF self.stack # <<>> THEN [self EXCEPT !.stack[Len(self.stack)][2] = v]
    ELSE [self EXCEPT !.dest = v]

\* QuotedStack::push
push(self, node) == mut_ref_set(self, Append(mut_ref(self), node))

\* the body of push_str and push_string: txt goes to the end of a last Text
push_str_dest(dest, txt) ==
    IF dest # <<>> /\ dest[Len(dest)].kind = "Text"
    THEN [dest EXCEPT ![Len(dest)].text = @ \o txt]
    ELSE Append(dest, MicroNode_Text(txt))

\* QuotedStack::push_str
push_str(self, txt) == mut_ref_set(self, push_str_dest(mut_ref(self), txt))

\* QuotedStack::push_string
push_string(self, txt) == mut_ref_set(self, push_str_dest(mut_ref(self), txt))

\* stack.pop(): the QuotedStack without its last entry
popped(self) == QuotedStack(self.dest, SubSeq(self.stack, 1, Len(self.stack) - 1))

RECURSIVE push_quoted(_, _)
\* for node in quoted { Text(txt) => push_string(txt), _ => push(node) }
push_quoted(self, quoted) ==
    IF quoted = <<>> THEN self
    ELSE push_quoted(IF Head(quoted).kind = "Text"
                     THEN push_string(self, Head(quoted).text)
                     ELSE push(self, Head(quoted)),
                     Tail(quoted))

RECURSIVE collapse_hanging(_)
\* one turn of the loop of collapse_hanging, top being the entry popped
collapse_top(self, top) ==
    collapse_hanging(push_quoted(push_str(self, unmatched_str(top[1])), top[2]))

\* QuotedStack::collapse_hanging
collapse_hanging(self) ==
    IF self.stack = <<>> THEN self.dest
    ELSE collapse_top(popped(self), self.stack[Len(self.stack)])

\* a closing quote that takes the innermost open quote whatever its kind
close_quote_any_kind(self, kind) ==
    IF self.stack # <<>>
    THEN push(popped(self), MicroNode_Quoted(self.stack[Len(self.stack)][2]))
    ELSE push_str(self, unmatched_str(kind))

\* EventOwned::SmartQuoteSingleClose and SmartQuoteDoubleClose
close_quote(self, kind) ==
    IF self.stack # <<>> /\ self.stack[Len(self.stack)][1] = kind
    THEN push(popped(self), MicroNode_Quoted(self.stack[Len(self.stack)][2]))
    ELSE push_str(self, unmatched_str(kind))

\* the closure drain of stamp; st is [stack, drained, orig, range_wip]
drain(st, start, end) ==
    [stack |-> mut_ref_set(st.stack,
                   mut_ref(st.stack)
                      \o SubSeq(st.orig, start - st.drained + 1, end - st.drained)),
     drained |-> st.drained + (end - start),
     orig |-> SubSeq(st.orig, 1, start - st.drained)
                 \o SubSeq(st.orig, end - st.drained + 1, Len(st.orig)),
     range_wip |-> st.range_wip]

\* if let Some(range) = range_wip { drain(..); range_wip = None }
drain_range_wip(st) ==
    IF is_some(st.range_wip)
    THEN [drain(st, unwrap(st.range_wip)[1], unwrap(st.range_wip)[2])
             EXCEPT !.range_wip = None]
    ELSE st

\* `match ev` of stamp on the QuotedStack
stamp_ev(self, e) ==
    CASE e.ev = "Text" -> push_string(self, e.text)
      [] e.ev = "SmartMidwordInvertedComma" -> push_str(self, <<SINGLE_CLOSE>>)
      [] e.ev = "SmartQuoteSingleOpen" ->
            QuotedStack(self.dest, Append(self.stack, <<SFQuoteKind_Single, <<>>>>))
      [] e.ev = "SmartQuoteDoubleOpen" ->
            QuotedStack(self.dest, Append(self.stack, <<SFQuoteKind_Double, <<>>>>))
      [] e.ev = "SmartQuoteSingleClose" -> close_quote(self, SFQuoteKind_Single)
      [] e.ev = "SmartQuoteDoubleClose" -> close_quote(self, SFQuoteKind_Double)

\* Intermediate::Event(ev), st being the state after the pending range is drained
stamp_event(st, e) == [st EXCEPT !.stack = stamp_ev(st.stack, e)]

\* quote_is_possible
quote_is_possible(ch) ==
    ch \in {SINGLE_OPEN, SINGLE_CLOSE, DOUBLE_OPEN, DOUBLE_CLOSE, "'", "\""}

\* char::is_whitespace, char::is_numeric and char::is_control on the
\* characters of the texts here
is_whitespace(c) == c = " "
is_numeric(c) == c \in {"0", "1", "2", "3", "4", "5", "6", "7", "8", "9"}
is_control(c) == FALSE

\* puncttable::is_punctuation on the characters of the texts here
is_punctuation(c) ==
    c \in {".", ",", "!", "(", ")", "*", "~", "_", "'", "\"",
           SINGLE_OPEN, SINGLE_CLOSE, DOUBLE_OPEN, DOUBLE_CLOSE}

\* the closures of quote_kind
not_italic_ish(c) == c \notin {"*", "~", "_", "'", "\""}
not_term_punc(c) == is_punctuation(c) /\ c # "." /\ c # ","
wordy(c) == ~is_punctuation(c) /\ ~is_whitespace(c) /\ ~is_control(c)

RECURSIVE next_char(_)
\* suffix.chars().filter(not_italic_ish).nth(0).unwrap_or(' ')
next_char(suffix) ==
    IF suffix = <<>> THEN " "
    ELSE IF not_italic_ish(Head(suffix)) THEN Head(suffix)
    ELSE next_char(Tail(suffix))

RECURSIVE prev_char(_)
\* prefix.chars().rev().filter(not_italic_ish).nth(0).unwrap_or(' ')
prev_char(prefix) ==
    IF prefix = <<>> THEN " "
    ELSE IF not_italic_ish(prefix[Len(prefix)]) THEN prefix[Len(prefix)]
    ELSE prev_char(SubSeq(prefix, 1, Len(prefix) - 1))

\* SmartQuoteKind::from_curly
from_curly(ch) ==
    IF ch = SINGLE_OPEN THEN Some("OpenSingle")
    ELSE IF ch = SINGLE_CLOSE THEN Some("CloseSingle")
    ELSE IF ch = DOUBLE_OPEN THEN Some("OpenDouble")
    ELSE IF ch = DOUBLE_CLOSE THEN Some("CloseDouble")
    ELSE None

\* the branches of quote_kind, prev_c and next_c being its prev_char and next_char
quote_kind_between(character, prev_c, next_c) ==
    IF is_some(from_curly(character))
    THEN (IF from_curly(character) = Some("CloseSingle") /\ wordy(prev_c) /\ wordy(next_c)
          THEN Some("Midword") ELSE from_curly(character))
    ELSE IF is_whitespace(prev_c) /\ is_whitespace(next_c) THEN None
    ELSE IF is_whitespace(prev_c) /\ is_numeric(next_c) /\ character = "'" THEN Some("Midword")
    ELSE IF ~is_whitespace(prev_c) /\ is_whitespace(next_c) THEN Some("Close")
    ELSE IF is_whitespace(prev_c) /\ ~is_whitespace(next_c) THEN Some("Open")
    ELSE IF is_whitespace(next_c) /\ prev_c \in {".", ",", "!"} THEN Some("Close")
    ELSE IF is_punctuation(prev_c) /\ not_term_punc(next_c) THEN Some("Close")
    ELSE IF not_term_punc(prev_c) /\ is_punctuation(next_c) THEN Some("Open")
    ELSE IF wordy(prev_c) /\ wordy(next_c) /\ character = "'" THEN Some("Midword")
    ELSE IF is_punctuation(prev_c) /\ wordy(next_c) THEN Some("Open")
    ELSE IF wordy(prev_c) /\ is_punctuation(next_c) THEN Some("Close")
    ELSE None

\* quote_kind
quote_kind(character, prefix, suffix) ==
    quote_kind_between(character, prev_char(prefix), next_char(suffix))

\* quote_event, kind being an Option as quote_kind returns it
quote_event(kind, ch) ==
    IF kind = None THEN None
    ELSE CASE unwrap(kind) = "OpenSingle" -> Some("SmartQuoteSingleOpen")
           [] unwrap(kind) = "CloseSingle" -> Some("SmartQuoteSingleClose")
           [] unwrap(kind) = "OpenDouble" -> Some("SmartQuoteDoubleOpen")
           [] unwrap(kind) = "CloseDouble" -> Some("SmartQuoteDoubleClose")
           [] unwrap(kind) = "Open" /\ ch = "'" -> Some("SmartQuoteSingleOpen")
           [] unwrap(kind) = "Close" /\ ch = "'" -> Some("SmartQuoteSingleClose")
           [] unwrap(kind) = "Open" /\ ch = "\"" -> Some("SmartQuoteDoubleOpen")
           [] unwrap(kind) = "Close" /\ ch = "\"" -> Some("SmartQuoteDoubleClose")
           [] unwrap(kind) = "Midword" /\ ch \in {"'", SINGLE_CLOSE} ->
                 Some("SmartMidwordInvertedComma")
           [] OTHER -> None

\* prefix and suffix of QuoteSplitter::next: an empty one is the text of
\* the neighbouring node, if there is one
or_neighbour(part, neighbour) ==
    IF part = <<>> /\ is_some(neighbour) THEN unwrap(neighbour) ELSE part

\* an Event::Text, which the filter of events drops when it is empty
text_event(txt) == IF txt = <<>> THEN <<>> ELSE <<EventText(txt)>>

RECURSIVE splitter(_, _, _, _, _)
\* the Thingo of the quote character at ix: nothing when it is no quote
\* event, else the text up to it and the event
thingo(string, prev_text, next_text, ix, text_start, ev) ==
    IF ev = None THEN splitter(string, prev_text, next_text, ix + 1, text_start)
    ELSE text_event(SubSeq(string, text_start + 1, ix)) \o <<Event(unwrap(ev))>>
            \o splitter(string, prev_text, next_text, ix + 1, ix + 1)

\* QuoteSplitter::events from the character at ix on
splitter(string, prev_text, next_text, ix, text_start) ==
    IF ix >= Len(string)
    THEN (IF text_start > 0
          THEN text_event(SubSeq(string, text_start + 1, Len(string))) ELSE <<>>)
    ELSE IF ~quote_is_possible(string[ix + 1])
    THEN splitter(string, prev_text, next_text, ix + 1, text_start)
    ELSE thingo(string, prev_text, next_text, ix, text_start,
                quote_event(quote_kind(string[ix + 1],
                                       or_neighbour(SubSeq(string, 1, ix), prev_text),
                                       or_neighbour(SubSeq(string, ix + 2, Len(string)), next_text)),
                            string[ix + 1]))

\* QuoteSplitter::new(string, prev, next).events()
events(string, prev_text, next_text) == splitter(string, prev_text, next_text, 0, 0)

RECURSIVE leaning_text(_, _)
\* leaning_text
leaning_text(node, rightmost) ==
    IF node.kind = "Text" THEN Some(node.text)
    ELSE IF node.children = <<>> THEN None
    ELSE leaning_text(IF rightmost THEN node.children[Len(node.children)]
                      ELSE node.children[1], rightmost)

\* original.get(ix).and_then(|n| leaning_text(n, rightmost)), ix from 0
leaning_at(original, ix, rightmost) ==
    IF ix >= 0 /\ ix < Len(original) THEN leaning_text(original[ix + 1], rightmost)
    ELSE None

\* EachSplitter: the events of a text, or its index when there are none
EachSplitter(ix, evs) == IF evs = <<>> THEN <<Index(ix)>> ELSE evs

RECURSIVE intermediates_from(_, _)
\* the flat_map of QuoteMatcher::intermediates from the node at ix on
intermediates_from(original, ix) ==
    IF ix >= Len(original) THEN <<>>
    ELSE (IF has_children(original[ix + 1]) THEN <<Index(ix)>>
          ELSE EachSplitter(ix, events(original[ix + 1].text,
                                       leaning_at(original, ix - 1, TRUE),
                                       leaning_at(original, ix + 1, FALSE))))
         \o intermediates_from(original, ix + 1)

\* QuoteMatcher::intermediates
intermediates(original) == intermediates_from(original, 0)

RECURSIVE parse_quotes(_)
\* Intermediate::Index(ix) on a node with children: the children are
\* replaced by parse_quotes of them
parse_children(node) ==
    IF has_children(node)
    THEN [node EXCEPT !.children = parse_quotes(node.children)]
    ELSE node

\* Intermediate::Index(ix)
stamp_index(st, ix) ==
    IF is_some(st.range_wip)
    THEN IF unwrap(st.range_wip)[2] = ix
         THEN [st EXCEPT !.range_wip = Some(<<unwrap(st.range_wip)[1], ix + 1>>)]
         ELSE [drain(st, unwrap(st.range_wip)[1], unwrap(st.range_wip)[2])
                  EXCEPT !.range_wip = Some(<<ix, ix + 1>>)]
    ELSE [st EXCEPT !.range_wip = Some(<<ix, ix + 1>>)]

\* the children of orig[ix - drained] are parsed in place
parse_at(st, ix) ==
    [st EXCEPT !.orig[ix - st.drained + 1] = parse_children(@)]

RECURSIVE stamp_loop(_, _)
\* for inter in intermediates { .. }, then the last drain
stamp_loop(st, inters) ==
    IF inters = <<>> THEN drain_range_wip(st)
    ELSE stamp_loop(IF Head(inters).inter = "Event"
                    THEN stamp_event(drain_range_wip(st), Head(inters))
                    ELSE stamp_index(parse_at(st, Head(inters).ix), Head(inters).ix),
                    Tail(inters))

\* stamp
stamp(inters, orig) ==
    collapse_hanging(
        stamp_loop([stack |-> QuotedStack(<<>>, <<>>), drained |-> 0, orig |-> orig,
                    range_wip |-> None], inters).stack)

\* parse_quotes
parse_quotes(original) == stamp(intermediates(original), original)

\* longest list of intermediates handed to stamp
MaxInters == 4

\* the nodes of test_stamp and a node with children behind them: children
\* that are nothing, a quoted text, a text with an inverted comma, and two
\* texts of which the second closes a quote never opened
StampNodes ==
    {MicroNode_Formatted(<<>>, "FontStyleItalic"),
     MicroNode_Formatted(<<MicroNode_Text(<<"'", "a", "'">>)>>, "FontStyleItalic"),
     MicroNode_Quoted(<<MicroNode_Text(<<"\"", "a", "\"">>)>>),
     MicroNode_NoCase(<<MicroNode_Text(<<"a", "'", "a">>)>>),
     MicroNode_NoDecor(<<MicroNode_Text(<<"a">>), MicroNode_Text(<<"b", "'">>)>>)}
StampOrig ==
    {<<MicroNode_Text(<<"h", "i">>), MicroNode_Text(<<"h", "o">>), n>> : n \in StampNodes}
StampEvents ==
    {EventText(<<"a">>), Event("SmartMidwordInvertedComma"),
     Event("SmartQuoteSingleOpen"), Event("SmartQuoteDoubleOpen"),
     Event("SmartQuoteSingleClose"), Event("SmartQuoteDoubleClose")}
\* the indexes come in rising order, as QuoteMatcher::intermediates gives them
StampIntermediates ==
    {s \in SeqsUpTo(StampEvents \cup {Index(ix) : ix \in 0..2}, MaxInters) :
        \A i, j \in 1..Len(s) :
           (i < j /\ s[i].inter = "Index" /\ s[j].inter = "Index") => s[i].ix < s[j].ix}

InitStamp ==
    /\ InitProcessor
    /\ ret = None
    /\ args \in [fn : {"stamp"}, intermediates : StampIntermediates, orig : StampOrig]

Stamp ==
    /\ args.fn = "stamp"
    /\ ret = None
    /\ ret' = Some(stamp(args.intermediates, args.orig))
    /\ UNCHANGED Pure

SpecStamp == InitStamp /\ [][Stamp]_vars

\* what a list of nodes reads as: the characters of its texts, and every
\* other node as its children between two marks of its kind
RECURSIVE flat(_)
flat(nodes) ==
    IF nodes = <<>> THEN <<>>
    ELSE (CASE Head(nodes).kind = "Text" -> Head(nodes).text
            [] Head(nodes).kind = "Quoted" ->
                  <<"QUOTED_START">> \o flat(Head(nodes).children) \o <<"QUOTED_END">>
            [] Head(nodes).kind = "Formatted" ->
                  <<Head(nodes).cmd>> \o flat(Head(nodes).children) \o <<"FORMATTED_END">>
            [] OTHER ->
                  <<Head(nodes).kind>> \o flat(Head(nodes).children) \o <<"END">>)
         \o flat(Tail(nodes))

is_quote(inter, evs) == inter.inter = "Event" /\ inter.ev \in evs
quote_is_single(inter) ==
    inter.ev \in {"SmartQuoteSingleOpen", "SmartQuoteSingleClose"}

\* the places of the quote events that pair up: an opening quote and the next
\* closing quote of its kind met while it is the innermost quote still open
RECURSIVE paired(_, _, _, _)
paired(inters, i, open, acc) ==
    IF i > Len(inters) THEN acc
    ELSE IF is_quote(inters[i], {"SmartQuoteSingleOpen", "SmartQuoteDoubleOpen"})
    THEN paired(inters, i + 1, Append(open, i), acc)
    ELSE IF /\ is_quote(inters[i], {"SmartQuoteSingleClose", "SmartQuoteDoubleClose"})
            /\ open # <<>>
            /\ quote_is_single(inters[open[Len(open)]]) = quote_is_single(inters[i])
    THEN paired(inters, i + 1, SubSeq(open, 1, Len(open) - 1),
                acc \cup {open[Len(open)], i})
    ELSE paired(inters, i + 1, open, acc)

\* what the i-th intermediate is to read as, P being the places that pair up;
\* a node taken by index reads as the node with its children parsed
reads_as(inter, orig, is_paired) ==
    IF inter.inter = "Index" THEN flat(<<parse_children(orig[inter.ix + 1])>>)
    ELSE IF inter.ev = "Text" THEN inter.text
    ELSE IF inter.ev = "SmartMidwordInvertedComma" THEN <<SINGLE_CLOSE>>
    ELSE IF is_paired
    THEN (IF inter.ev \in {"SmartQuoteSingleOpen", "SmartQuoteDoubleOpen"}
          THEN <<"QUOTED_START">> ELSE <<"QUOTED_END">>)
    ELSE IF quote_is_single(inter) THEN <<"'">> ELSE <<"\"">>

RECURSIVE reads(_, _, _, _)
reads(inters, orig, P, i) ==
    IF i > Len(inters) THEN <<>>
    ELSE reads_as(inters[i], orig, i \in P) \o reads(inters, orig, P, i + 1)

\* the texts that stand right behind another Text node, at any depth
RECURSIVE texts_behind_text(_)
texts_behind_text(nodes) ==
    {nodes[i].text : i \in {k \in 2..Len(nodes) :
                               nodes[k].kind = "Text" /\ nodes[k - 1].kind = "Text"}}
       \cup UNION {texts_behind_text(nodes[i].children) :
                      i \in {k \in 1..Len(nodes) : has_children(nodes[k])}}

\* the texts of the Text nodes of orig the intermediates take by index, and
\* those the parse of the children of a node taken by index takes by index
RECURSIVE taken_texts(_, _)
taken_texts(inters, orig) ==
    {orig[inters[i].ix + 1].text :
        i \in {k \in 1..Len(inters) :
                  inters[k].inter = "Index" /\ orig[inters[k].ix + 1].kind = "Text"}}
       \cup UNION {taken_texts(intermediates(orig[inters[i].ix + 1].children),
                               orig[inters[i].ix + 1].children) :
                      i \in {k \in 1..Len(inters) :
                                inters[k].inter = "Index"
                                   /\ has_children(orig[inters[k].ix + 1])}}

\* the result of stamp reads as its input reads, every pair of quotes being
\* one Quoted node and every other quote its literal character
stamp_keeps_all ==
    flat(unwrap(ret))
       = reads(args.intermediates, args.orig, paired(args.intermediates, 1, <<>>, {}), 1)

\* C24: stamp turns an opening quote and the closing quote of its kind, no
\* other quote being open between them, into one Quoted node of what lies
\* between; a closing quote of another kind than the innermost open quote and
\* a quote still open at the end are the literal character in their place;
\* nothing is lost or reordered; no Text node stands behind a Text node.
C24_StampMergesText ==
    (args # None /\ args.fn = "stamp" /\ ret # None)
       => /\ stamp_keeps_all
          /\ texts_behind_text(unwrap(ret)) = {}

\* C24, amended: as above, but text events and literal quotes are merged
\* into a Text node before them, so that a Text node behind a Text node
\* begins with the text of a Text node taken over by index.
C24_StampKeepsTakenText ==
    (args # None /\ args.fn = "stamp" /\ ret # None)
       => /\ stamp_keeps_all
          /\ \A t \in texts_behind_text(unwrap(ret)) :
                \E x \in taken_texts(args.intermediates, args.orig) :
                   Len(x) <= Len(t) /\ SubSeq(t, 1, Len(x)) = x

\* the second case of test_stamp: 'hi' and 'ho' taken by index between a
\* single quote and its closing quote are the two children of one Quoted
C24_Witness ==
    /\ args # None /\ args.fn = "stamp" /\ ret # None
    /\ args.intermediates = <<Event("SmartQuoteSingleOpen"), Index(0), Index(1),
                              Event("SmartQuoteSingleClose")>>
    /\ unwrap(ret) = <<MicroNode_Quoted(<<MicroNode_Text(<<"h", "i">>),
                                          MicroNode_Text(<<"h", "o">>)>>)>>

-----------------------------------------------------------------------------
(* <text variable="year-suffix"/>: Element::intermediate and the hook      *)

\* GroupVars
Important == "Important"
Unresolved == "Unresolved"

\* YearSuffixHook::Explicit(text)
YearSuffixHook_Explicit(text) == [hook |-> "Explicit", text |-> text]

\* IR::year_suffix(hook): the hook node without a suffix, tagged Unresolved
IR_year_suffix(hook) ==
    <<[ir |-> "YearSuffix", hook |-> hook, suffix_num |-> None], Unresolved>>

\* IR::Rendered(Some(CiteEdgeData::YearSuffix(output)))
IR_Rendered_YearSuffix(o) == [ir |-> "Rendered", edge |-> "YearSuffix", output |-> o]

Alphabet ==
    <<"a", "b", "c", "d", "e", "f", "g", "h", "i", "j", "k", "l", "m",
      "n", "o", "p", "q", "r", "s", "t", "u", "v", "w", "x", "y", "z">>

RECURSIVE to_bijective_base_26(_)
\* citeproc_io::utils::to_bijective_base_26: 1 is a, 26 is z, 27 is aa
to_bijective_base_26(n) ==
    IF n = 0 THEN <<>>
    ELSE to_bijective_base_26((n - 1) \div 26) \o <<Alphabet[((n - 1) % 26) + 1]>>

\* Renderer::text_value: None for an empty value; otherwise the value
\* rendered by the text element, which for an element without affixes or
\* formatting is the value
text_value(text, value) == IF value = <<>> THEN None ELSE Some(value)

\* what a call of the builder comes to: it returns an IrSum, or it panics
Returned(sum) == [panic |-> FALSE, sum |-> sum]
Panicked == [panic |-> TRUE, sum |-> <<>>]

\* YearSuffixHook::render: .expect("base26 is not empty") panics on the None
\* text_value gives for the empty string
YearSuffixHook_render(hook, ctx, suffix_num) ==
    IF text_value(hook.text, to_bijective_base_26(suffix_num)) = None
    THEN Panicked
    ELSE Returned(<<IR_Rendered_YearSuffix(
                       unwrap(text_value(hook.text, to_bijective_base_26(suffix_num)))),
                    Important>>)

\* GenericContext::should_add_year_suffix_hook for GenericContext::Cit
should_add_year_suffix_hook(ctx) == ctx.style.citation.disambiguate_add_year_suffix

\* Element::intermediate on <text variable="year-suffix"/>
intermediate(text, ctx) ==
    IF is_some(ctx.year_suffix)
    THEN YearSuffixHook_render(YearSuffixHook_Explicit(text), ctx, unwrap(ctx.year_suffix))
    ELSE Returned(IR_year_suffix(YearSuffixHook_Explicit(text)))

\* largest year-suffix number a context carries
MaxSuffix == 60

\* a cite context: the style's disambiguate-add-year-suffix and the
\* year-suffix number (Option<u32>), if one is assigned
CiteContexts ==
    {[style |-> [citation |-> [disambiguate_add_year_suffix |-> d]], year_suffix |-> ys] :
        d \in BOOLEAN, ys \in {None} \cup {Some(n) : n \in 0..MaxSuffix}}

InitElement ==
    /\ InitProcessor
    /\ ret = None
    /\ args \in [fn : {"intermediate"}, text : {"year-suffix"}, ctx : CiteContexts]

Intermediate ==
    /\ args.fn = "intermediate"
    /\ ret = None
    /\ ret' = Some(intermediate(args.text, args.ctx))
    /\ UNCHANGED Pure

SpecElement == InitElement /\ [][Intermediate]_vars

\* C25: for a text element of the year-suffix variable the builder, when it
\* returns, gives a year-suffix hook exactly when the style asks for
\* disambiguate-add-year-suffix, the hook being Unresolved and without a
\* suffix; it gives a rendered suffix, in bijective base 26 and Important,
\* only when the context carries a year-suffix number.
C25_HookWhenStyleAsks ==
    (args # None /\ args.fn = "intermediate" /\ ret # None /\ ~unwrap(ret).panic)
       => LET sum == unwrap(ret).sum IN
          /\ (sum[1].ir = "YearSuffix") <=> should_add_year_suffix_hook(args.ctx)
          /\ sum[1].ir = "YearSuffix"
                => sum[2] = Unresolved /\ sum[1].suffix_num = None
          /\ sum[1].ir = "Rendered"
                => /\ is_some(args.ctx.year_suffix)
                   /\ sum[2] = Important
                   /\ sum[1].output # <<>>
                   /\ \A i \in 1..Len(sum[1].output) :
                         \E k \in 1..26 : sum[1].output[i] = Alphabet[k]

-----------------------------------------------------------------------------
(* group_and_collapse: the grouping of cites with the same names           *)

\* Unnamed3::new, with the cite's place in the input and what its first
\* name block renders as (None: no name block)
Unnamed3_new(input_ix, rendered, has_prefix, has_suffix) ==
    [input_ix |-> input_ix, rendered |-> rendered,
     has_prefix |-> has_prefix, has_suffix |-> has_suffix,
     is_first |-> FALSE, should_collapse |-> FALSE]

\* slice[a..b].rotate_right(1) on the 0-based places a..b-1 of cites
rotate_right_1(cites, a, b) ==
    [i \in 1..Len(cites) |->
        IF i = a + 1 /\ a < b THEN cites[b]
        ELSE IF a + 1 < i /\ i <= b THEN cites[i - 1]
        ELSE cites[i]]

\* cites.get(i).map_or(false, |u| ..)
get_has_suffix(cites, i) == i >= 0 /\ i < Len(cites) /\ cites[i + 1].has_suffix
get_has_prefix(cites, i) == i >= 0 /\ i < Len(cites) /\ cites[i + 1].has_prefix

\* "Keep cites separated by affixes together"
separated_by_affixes(cites, oix, ix) ==
    \/ get_has_suffix(cites, oix)
    \/ get_has_prefix(cites, oix + 1)
    \/ get_has_suffix(cites, ix - 1)
    \/ get_has_prefix(cites, ix) \/ get_has_suffix(cites, ix)

\* the cites after is_first and should_collapse are set for oix and ix
mark_same_names(cites, oix, ix, seen_once) ==
    [cites EXCEPT ![oix + 1].is_first = IF ~seen_once THEN TRUE ELSE @,
                  ![ix + 1].should_collapse = TRUE]

\* the closure of and_modify; st is [cites, same_names], e the entry (oix, seen_once)
and_modify_same_names(st, rendered, e, ix) ==
    IF separated_by_affixes(st.cites, e[1], ix)
    THEN [st EXCEPT !.same_names[rendered] = <<ix, FALSE>>]
    ELSE IF e[1] < ix
    THEN [cites |-> rotate_right_1(mark_same_names(st.cites, e[1], ix, e[2]),
                                   e[1] + 1, ix + 1),
          same_names |-> [st.same_names EXCEPT ![rendered] = <<e[1] + 1, TRUE>>]]
    ELSE st

\* same_names.entry(rendered).and_modify(..).or_insert((ix, false))
entry_same_names(st, rendered, ix) ==
    IF rendered \in DOMAIN st.same_names
    THEN and_modify_same_names(st, rendered, st.same_names[rendered], ix)
    ELSE [st EXCEPT !.same_names =
             [r \in DOMAIN st.same_names \cup {rendered} |->
                 IF r = rendered THEN <<ix, FALSE>> ELSE st.same_names[r]]]

RECURSIVE group_same_names_loop(_, _)
\* for ix in 0..cites.len() { .. }
group_same_names_loop(st, ix) ==
    IF ix >= Len(st.cites) THEN st.cites
    ELSE group_same_names_loop(entry_same_names(st, st.cites[ix + 1].rendered, ix), ix + 1)

\* "First, group cites with the same name"
group_same_names(cites) ==
    group_same_names_loop([cites |-> cites, same_names |-> [r \in {} |-> <<0, FALSE>>]], 0)

\* longest list of cites handed to the grouping
MaxNames == 4

\* cites without prefix or suffix by A, by B or without names
RenderedNames == {None, Some("A"), Some("B")}
NamedCites ==
    UNION {{[i \in 1..k |-> Unnamed3_new(i - 1, names[i], FALSE, FALSE)] :
               names \in [1..k -> RenderedNames]} : k \in 0..MaxNames}

InitGroup ==
    /\ InitProcessor
    /\ ret = None
    /\ args \in [fn : {"group_same_names"}, cites : NamedCites]

GroupSameNames ==
    /\ args.fn = "group_same_names"
    /\ ret = None
    /\ ret' = Some(group_same_names(args.cites))
    /\ UNCHANGED Pure

SpecGroup == InitGroup /\ [][GroupSameNames]_vars

\* the cites of r rendered as the i-th is
same_as(r, i) == {j \in 1..Len(r) : r[j].rendered = r[i].rendered}

\* C26: after the grouping the cites are the input's cites; the cites with
\* the same names stand together in their input order; in a group of two
\* or more the first cite, and no other cite anywhere, is_first, and the
\* cites behind the first of a group, and no others, should_collapse.
C26_GroupedInOrder ==
    (args # None /\ args.fn = "group_same_names" /\ ret # None)
       => LET r == unwrap(ret) IN
          /\ Len(r) = Len(args.cites)
          /\ \A i \in 1..Len(r) :
                /\ r[i].input_ix \in 0..(Len(r) - 1)
                /\ r[i].rendered = args.cites[r[i].input_ix + 1].rendered
          /\ \A i, j \in 1..Len(r) : r[i].input_ix = r[j].input_ix => i = j
          /\ \A i, j, k \in 1..Len(r) :
                (i < j /\ j < k /\ r[i].rendered = r[k].rendered)
                   => r[j].rendered = r[i].rendered
          /\ \A i, j \in 1..Len(r) :
                (i < j /\ r[i].rendered = r[j].rendered) => r[i].input_ix < r[j].input_ix
          /\ \A i \in 1..Len(r) :
                /\ r[i].is_first
                      <=> (Cardinality(same_as(r, i)) >= 2 /\ \A j \in same_as(r, i) : i <= j)
                /\ r[i].should_collapse <=> (\E j \in same_as(r, i) : j < i)

\* the ordering one macro key gives when each item's string is the
\* rendering of its own context
own_macro_ordering(a, b, key) ==
    LET x == compare_demoting_none("NaturalCmp",
                 NaturalCmp_new(ctx_sort_string(a.reference, key.sort_source.name)),
                 NaturalCmp_new(ctx_sort_string(b.reference, key.sort_source.name)))
    IN directed(key.direction, x[1], x[2])

\* C27: under a macro sort key bib_ordering compares each item's own
\* rendering of the macro, so two items whose renderings differ never
\* compare Equal.
C27_OwnSortString ==
    (args # None /\ args.fn = "bib_ordering" /\ ret # None /\ Len(args.sort) = 1
        /\ args.sort[1].sort_source.kind = "Macro")
       => /\ unwrap(ret) = own_macro_ordering(args.a, args.b, args.sort[1])
          /\ ctx_sort_string(args.a.reference, args.sort[1].sort_source.name)
                # ctx_sort_string(args.b.reference, args.sort[1].sort_source.name)
                => unwrap(ret) # Equal

-----------------------------------------------------------------------------
(* The subtraction nxt.cnum - 1 on the numbers handed to collapse_ranges   *)

RECURSIVE collapse_loop_overflows(_, _)
\* whether some attempt_append of collapse_ranges' loop overflows, wip
\* being the piece the loop holds
collapse_loop_overflows(wip, nums) ==
    IF nums = <<>> THEN FALSE
    ELSE \/ attempt_append_overflows(wip, Head(nums))
         \/ collapse_loop_overflows(attempt_append(wip, Head(nums)).self, Tail(nums))

\* whether collapse_ranges(nums) overflows
collapse_ranges_overflows(nums) ==
    nums # <<>> /\ collapse_loop_overflows(RangePiece_Single(Head(nums)), Tail(nums))

\* the cnums (or year suffixes) of a group of cites, from 0
Ordinals == {0, 1, 2}
OrdinalLists ==
    UNION {{[i \in 1..k |-> CnumIx(c[i], i - 1, f[i])] :
               c \in [1..k -> Ordinals], f \in [1..k -> BOOLEAN]} : k \in 0..MaxGroup}
OrdinalCites ==
    SeqsUpTo([num : {None} \cup {Some(n) : n \in Ordinals}, has_locator : BOOLEAN], MaxGroup)

InitOrdinals ==
    /\ InitProcessor
    /\ ret = None
    /\ \/ args \in [fn : {"collapse_ranges"}, nums : OrdinalLists]
       \/ args \in [fn : {"group_and_collapse"}, cites : OrdinalCites]

CollapseOrdinals ==
    /\ args.fn = "collapse_ranges"
    /\ ret = None
    /\ ret' = Some([pieces |-> collapse_ranges(args.nums),
                    overflow |-> collapse_ranges_overflows(args.nums)])
    /\ UNCHANGED Pure

\* Collapse::CitationNumber and Collapse::YearSuffixRanged on a group of
\* cites: the numbers pushed for the first cite and those that follow
GroupOrdinals ==
    /\ args.fn = "group_and_collapse"
    /\ ret = None
    /\ ret' = Some([pieces |-> collapsed_ranges(args.cites),
                    overflow |-> args.cites # <<>>
                         /\ collapse_ranges_overflows(
                                group_cnums(Head(args.cites), Tail(args.cites), 0))])
    /\ UNCHANGED Pure

NextOrdinals == CollapseOrdinals \/ GroupOrdinals

SpecOrdinals == InitOrdinals /\ [][NextOrdinals]_vars

\* C28: on no list of numbers, a 0 behind the first place included, does
\* attempt_append or collapse_ranges evaluate the u32 nxt.cnum - 1 with
\* overflow.
C28_NoUnderflow ==
    (args # None /\ args.fn \in {"collapse_ranges", "group_and_collapse"} /\ ret # None
        /\ "overflow" \in DOMAIN unwrap(ret))
       => ~unwrap(ret).overflow

-----------------------------------------------------------------------------
(* The last-emitted map and the positions of the document *)

\* the keys of Processor.last_clusters
last_clusters_keys == {id \in ClusterIds : is_some(last_clusters[id])}

\* C29: right after compute() the keys of the last-emitted cluster map are
\* exactly the clusters that have a position in the document, the entry of
\* a removed or unpositioned cluster being dropped.
C29_KeysArePositioned ==
    call.op = "compute" => last_clusters_keys = PositionedClusters

\* C30: whatever calls were made, a cluster has a note number, so that
\* get_cluster is Some, only if its id is in cluster_ids; a cluster left
\* out of a successful set_cluster_order has none.
C30_PositionedAreListed ==
    \A id \in ClusterIds :
        is_some(get_cluster(TheDb, id))
           => (is_some(cluster_note_number[id]) /\ contains(cluster_ids, id))

=============================================================================
